---------------------------- MODULE Spec2Model ----------------------------
(***************************************************************************)
(* A model of the value/codec kernel of qFALL-math (MoogSven/math-test):   *)
(* the integer type Z (text codec in bases 2..62, narrowing to i64), the   *)
(* coefficient access of PolyOverZ and the text parser of PolyOverQ.       *)
(*                                                                         *)
(* Text is a sequence of one-character strings; the byte 0 is the          *)
(* character NUL.  The arbitrary-precision engine (FLINT/GMP) is modelled  *)
(* by operators named after the engine functions the Rust code calls.      *)
(* The machine word (i64/slong, u64) is SlongBits wide in the model.       *)
(***************************************************************************)
EXTENDS Integers, Sequences, FiniteSets, TLC

VARIABLES
    call,   \* the call under way: its name and its arguments
    obj,    \* the stored value of the object the call is made on (&self)
    pc,     \* "call" before the call has run, "done" after, "back" after a parse back
    ret,    \* what the call returned
    eng,    \* the foreign calls made so far, in order
    back    \* what parsing the returned text back returned

vars == <<call, obj, pc, ret, eng, back>>

----------------------------------------------------------------------------
(* Bounds of the model *)

\* width of the machine word (i64, u64, slong) in the model
SlongBits == 4
\* longest text handed to Z::from_str_b
MaxStrLen == 3
\* longest stored PolyOverZ
MaxPolyLen == 3
\* most coefficient tokens in a text handed to PolyOverQ::from_str
MaxTokens == 3
\* most entries of a matrix (rows times columns)
MaxCells == 4
\* most fields of an object handed to a deserializer
MaxFields == 2
\* most values made that reference one context
MaxReferents == 3

----------------------------------------------------------------------------
(* Machine integers *)

RECURSIVE Pow(_, _)
Pow(b, e) == IF e = 0 THEN 1 ELSE b * Pow(b, e - 1)

I64_MIN == -Pow(2, SlongBits - 1)
I64_MAX == Pow(2, SlongBits - 1) - 1
U64_MAX == Pow(2, SlongBits) - 1

I64 == I64_MIN .. I64_MAX

Abs(x) == IF x < 0 THEN -x ELSE x

\* the integers the model builds Z values from: beyond the word on both sides
ZValues == -(4 * U64_MAX + 4) .. (4 * U64_MAX + 4)

----------------------------------------------------------------------------
(* Results and errors (crate::error::MathError) *)

Ok(v) == [tag |-> "Ok", val |-> v]
Err(kind) == [tag |-> "Err", err |-> kind]

IsOk(r) == r.tag = "Ok"
IsErr(r) == r.tag = "Err"
IsErrOf(r, kind) == r.tag = "Err" /\ r.err = kind

None == [tag |-> "None"]

----------------------------------------------------------------------------
(* Characters *)

NUL == "NUL"

\* the digits of GMP for bases up to 36 (letters in either case)
LowerDigits == <<"0", "1", "2", "3", "4", "5", "6", "7", "8", "9",
                 "a", "b", "c", "d", "e", "f", "g", "h", "i", "j", "k", "l", "m",
                 "n", "o", "p", "q", "r", "s", "t", "u", "v", "w", "x", "y", "z">>

\* the collating sequence of GMP for bases 37..62
UpperLowerDigits == <<"0", "1", "2", "3", "4", "5", "6", "7", "8", "9",
                 "A", "B", "C", "D", "E", "F", "G", "H", "I", "J", "K", "L", "M",
                 "N", "O", "P", "Q", "R", "S", "T", "U", "V", "W", "X", "Y", "Z",
                 "a", "b", "c", "d", "e", "f", "g", "h", "i", "j", "k", "l", "m",
                 "n", "o", "p", "q", "r", "s", "t", "u", "v", "w", "x", "y", "z">>

IndexOf(seq, c) == CHOOSE i \in 1 .. Len(seq) : seq[i] = c
Occurs(seq, c) == \E i \in 1 .. Len(seq) : seq[i] = c

NoDigit == 255

\* __gmp_digit_value_tab: the value of a character as a digit of `base`
DigitValue(c, base) ==
    IF base > 36
    THEN IF Occurs(UpperLowerDigits, c) THEN IndexOf(UpperLowerDigits, c) - 1 ELSE NoDigit
    ELSE IF Occurs(LowerDigits, c) THEN IndexOf(LowerDigits, c) - 1
         ELSE IF Occurs(UpperLowerDigits, c)
              THEN IndexOf(UpperLowerDigits, c) - 1
              ELSE NoDigit

\* isspace of the C locale, as far as the model's characters go
IsSpaceC(c) == c \in {" ", "\t", "\n", "\r", "\f"}

\* char::is_whitespace: the Unicode White_Space property
IsWhitespace(c) == c \in {" ", "\t", "\n", "\r", "\f", "NBSP"}

ContainsWhitespace(s) == \E i \in 1 .. Len(s) : IsWhitespace(s[i])
ContainsNul(s) == \E i \in 1 .. Len(s) : s[i] = NUL

\* the character at position i of a C string: NUL at and after its end
CharAt(s, i) == IF i <= Len(s) THEN s[i] ELSE NUL

----------------------------------------------------------------------------
(* The engine: text to integer and back (mpz_set_str, mpz_get_str) *)

RECURSIVE SkipSpace(_, _)
SkipSpace(s, i) == IF IsSpaceC(CharAt(s, i)) THEN SkipSpace(s, i + 1) ELSE i

RECURSIVE SkipZerosAndSpace(_, _)
SkipZerosAndSpace(s, i) ==
    IF CharAt(s, i) = "0" \/ IsSpaceC(CharAt(s, i))
    THEN SkipZerosAndSpace(s, i + 1)
    ELSE i

\* the digits from position i on, white space ignored: the value, or -1 on a
\* character that is no digit of the base
RECURSIVE AccumulateDigits(_, _, _, _)
AccumulateDigits(s, i, base, acc) ==
    IF i > Len(s) THEN acc
    ELSE IF IsSpaceC(s[i]) THEN AccumulateDigits(s, i + 1, base, acc)
    ELSE IF DigitValue(s[i], base) >= base THEN -1
    ELSE AccumulateDigits(s, i + 1, base, acc * base + DigitValue(s[i], base))

\* mpz_set_str that reads the sign and then stores the magnitude
mpz_set_str_Magnitude(s, base) ==
    LET i0 == SkipSpace(s, 1)
        negative == CharAt(s, i0) = "-"
        i1 == IF negative THEN i0 + 1 ELSE i0
    IN  IF DigitValue(CharAt(s, i1), base) >= base THEN [rc |-> -1]
        ELSE LET i2 == SkipZerosAndSpace(s, i1)
                 mag == AccumulateDigits(s, i2, base, 0)
             IN  IF i2 > Len(s) THEN [rc |-> 0, value |-> 0]
                 ELSE IF mag < 0 THEN [rc |-> -1]
                 ELSE [rc |-> 0, value |-> mag]

\* mpz_set_str(x, str, base) for 2 <= base <= 62: [rc |-> 0, value |-> v] or
\* [rc |-> -1]
mpz_set_str(s, base) ==
    LET i0 == SkipSpace(s, 1)
        negative == CharAt(s, i0) = "-"
        i1 == IF negative THEN i0 + 1 ELSE i0
    IN  IF DigitValue(CharAt(s, i1), base) >= base THEN [rc |-> -1]
        ELSE LET i2 == SkipZerosAndSpace(s, i1)
                 mag == AccumulateDigits(s, i2, base, 0)
             IN  IF i2 > Len(s) THEN [rc |-> 0, value |-> 0]
                 ELSE IF mag < 0 THEN [rc |-> -1]
                 ELSE [rc |-> 0, value |-> IF negative THEN -mag ELSE mag]

\* fmpz_set_str(f, str, b): mpz_set_str, the value stored as an fmpz
fmpz_set_str(s, base) == mpz_set_str(s, base)

RECURSIVE DigitsOf(_, _, _)
DigitsOf(n, base, tab) ==
    IF n < base THEN <<tab[n + 1]>>
    ELSE Append(DigitsOf(n \div base, base, tab), tab[(n % base) + 1])

\* fmpz_get_str(NULL, b, f) for 2 <= b <= 62: the text of the value
fmpz_get_str(x, base) ==
    LET tab == IF base > 36 THEN UpperLowerDigits ELSE LowerDigits
        digits == DigitsOf(Abs(x), base, tab)
    IN  IF x < 0 THEN <<"-">> \o digits ELSE digits

----------------------------------------------------------------------------
(* Z: the text codec (src/integer/z/from.rs, src/integer/z/to_string.rs) *)

BASE_MIN == 2
BASE_MAX == 62

BaseInRange(base) == base >= BASE_MIN /\ base <= BASE_MAX

\* a handler's outcome: what it returns and the foreign calls it made, in order
Outcome(r, calls) == [ret |-> r, eng |-> calls]

\* from_str_b with the range of bases written 2..62 (exclusive) for 2..=62
from_str_b_ExclusiveRange(s, base) ==
    IF ~(base >= BASE_MIN /\ base < BASE_MAX) THEN Outcome(Err("OutOfBounds"), <<>>)
    ELSE IF ContainsWhitespace(s) THEN Outcome(Err("InvalidStringToZInput"), <<>>)
    ELSE IF ContainsNul(s) THEN Outcome(Err("InvalidStringToCStringInput"), <<>>)
    ELSE LET r == fmpz_set_str(s, base)
         IN  IF r.rc = 0
             THEN Outcome(Ok(r.value), <<"fmpz_set_str">>)
             ELSE Outcome(Err("InvalidStringToZInput"), <<"fmpz_set_str">>)

\* from_str_b with the text looked at before the base
from_str_b_TextFirst(s, base) ==
    IF ContainsWhitespace(s) THEN Outcome(Err("InvalidStringToZInput"), <<>>)
    ELSE IF ContainsNul(s) THEN Outcome(Err("InvalidStringToCStringInput"), <<>>)
    ELSE IF ~BaseInRange(base) THEN Outcome(Err("OutOfBounds"), <<>>)
    ELSE LET r == fmpz_set_str(s, base)
         IN  IF r.rc = 0
             THEN Outcome(Ok(r.value), <<"fmpz_set_str">>)
             ELSE Outcome(Err("InvalidStringToZInput"), <<"fmpz_set_str">>)

\* from_str_b without its own white-space check: the engine ignores white space
from_str_b_NoWhitespaceCheck(s, base) ==
    IF ~BaseInRange(base) THEN Outcome(Err("OutOfBounds"), <<>>)
    ELSE IF ContainsNul(s) THEN Outcome(Err("InvalidStringToCStringInput"), <<>>)
    ELSE LET r == fmpz_set_str(s, base)
         IN  IF r.rc = 0
             THEN Outcome(Ok(r.value), <<"fmpz_set_str">>)
             ELSE Outcome(Err("InvalidStringToZInput"), <<"fmpz_set_str">>)

\* from_str_b with the engine's return code compared to -1 only, and a NUL
\* byte reported as any other malformed text
from_str_b_NulAsZInput(s, base) ==
    IF ~BaseInRange(base) THEN Outcome(Err("OutOfBounds"), <<>>)
    ELSE IF ContainsWhitespace(s) \/ ContainsNul(s)
         THEN Outcome(Err("InvalidStringToZInput"), <<>>)
    ELSE LET r == fmpz_set_str(s, base)
         IN  IF r.rc = 0
             THEN Outcome(Ok(r.value), <<"fmpz_set_str">>)
             ELSE Outcome(Err("InvalidStringToZInput"), <<"fmpz_set_str">>)

\* Z::from_str_b(s, base)
from_str_b(s, base) ==
    IF ~BaseInRange(base) THEN Outcome(Err("OutOfBounds"), <<>>)
    ELSE IF ContainsWhitespace(s) THEN Outcome(Err("InvalidStringToZInput"), <<>>)
    ELSE IF ContainsNul(s) THEN Outcome(Err("InvalidStringToCStringInput"), <<>>)
    ELSE LET r == fmpz_set_str(s, base)
         IN  IF r.rc = 0
             THEN Outcome(Ok(r.value), <<"fmpz_set_str">>)
             ELSE Outcome(Err("InvalidStringToZInput"), <<"fmpz_set_str">>)

\* to_string_b that frees the buffer of the engine and then copies from it:
\* what it returns is whatever the freed memory holds
to_string_b_FreeFirst(x, base) ==
    IF ~BaseInRange(base) THEN Outcome(Err("OutOfBounds"), <<>>)
    ELSE Outcome(Ok(fmpz_get_str(x, base)), <<"fmpz_get_str", "free", "CStr::from_ptr">>)

\* Z::to_string_b(&self, base): the buffer fmpz_get_str returns is copied
\* into a String (CStr::from_ptr(..).to_owned()) and then freed
to_string_b(x, base) ==
    IF ~BaseInRange(base) THEN Outcome(Err("OutOfBounds"), <<>>)
    ELSE Outcome(Ok(fmpz_get_str(x, base)), <<"fmpz_get_str", "CStr::from_ptr", "free">>)

----------------------------------------------------------------------------
(* Z: conversions from and to machine integers (src/integer/z/from.rs) *)

\* Z::from_i64: fmpz_init_set_si keeps the value
from_i64(value) == value

\* the machine integer types and their widths, the 64 bits of the widest
\* being SlongBits and each narrower type one bit shorter than the next
IntTypes == {"i8", "i16", "i32", "i64", "u8", "u16", "u32", "u64"}
IsSigned(type) == type \in {"i8", "i16", "i32", "i64"}
IntBits(type) ==
    CASE type \in {"i64", "u64"} -> SlongBits
      [] type \in {"i32", "u32"} -> SlongBits - 1
      [] type \in {"i16", "u16"} -> SlongBits - 2
      [] type \in {"i8", "u8"} -> SlongBits - 3
IntRange(type) ==
    IF IsSigned(type)
    THEN -Pow(2, IntBits(type) - 1) .. (Pow(2, IntBits(type) - 1) - 1)
    ELSE 0 .. (Pow(2, IntBits(type)) - 1)

\* value as i64, value as u64: the low 64 bits, read with and without a sign
as_i64(value) ==
    LET low == value % Pow(2, SlongBits)
    IN  IF low > I64_MAX THEN low - Pow(2, SlongBits) ELSE low
as_u64(value) == value % Pow(2, SlongBits)

\* from_u64 handing its word to the signed initialiser
from_u64_Signed(value) == from_i64(as_i64(value))

\* Z::from_u64: fmpz_init_set_ui keeps the value of the unsigned word
from_u64(value) == value

\* from_type!(<type>, i64, Z, Z::from_i64) and from_type!(<type>, u64, Z,
\* Z::from_u64): Z::from_<type>(value) widens the value and hands it on
from_type(type, value) ==
    IF IsSigned(type) THEN from_i64(as_i64(value)) ELSE from_u64(as_u64(value))

\* from_trait!(<type>, Z, Z::from_<type>): Z::from(value) is Z::from_<type>
from_trait(type, value) ==
    CASE type = "i64" -> from_i64(value)
      [] type = "u64" -> from_u64(value)
      [] OTHER -> from_type(type, value)

\* fmpz_get_si: the value when it fits a slong; undefined when it does not,
\* so any slong (GMP returns the low bits with the sign of the value)
fmpz_get_si(x) == IF x \in I64 THEN {x} ELSE I64

\* try_from trusting what fmpz_get_si returned
try_from_Trusting(x, value_i64) == Outcome(Ok(value_i64), <<"fmpz_get_si">>)

\* try_from that takes a narrowed value of the sign of the original for the
\* original
try_from_SameSign(x, value_i64) ==
    IF (value_i64 < 0) = (x < 0)
    THEN Outcome(Ok(value_i64), <<"fmpz_get_si">>)
    ELSE Outcome(Err("ConversionError"),
                 <<"fmpz_get_si">> \o to_string_b(x, 10).eng)

\* i64::try_from(&Z), given what fmpz_get_si returned: Z::from(value_i64) is
\* compared with the value, and the message of the error is written with
\* the Display of the value, to_string_b(10)
try_from(x, value_i64) ==
    IF from_i64(value_i64) = x
    THEN Outcome(Ok(value_i64), <<"fmpz_get_si", "fmpz_init_set_si">>)
    ELSE Outcome(Err("ConversionError"),
                 <<"fmpz_get_si", "fmpz_init_set_si">> \o to_string_b(x, 10).eng)

----------------------------------------------------------------------------
(* PolyOverZ: coefficient access (src/integer/poly_over_z/get.rs) *)

\* utils::index::evaluate_index: the index as an i64, OutOfBounds when it does
\* not fit an i64 or is negative
evaluate_index(index) ==
    IF index < I64_MIN \/ index > I64_MAX THEN Err("OutOfBounds")
    ELSE IF index < 0 THEN Err("OutOfBounds")
    ELSE Ok(index)

\* fmpz_poly_get_coeff_fmpz(x, poly, n): coefficient n, zero from the length on
fmpz_poly_get_coeff_fmpz(poly, n) == IF n < Len(poly) THEN poly[n + 1] ELSE 0

\* get_coeff reporting an index at or beyond the stored length as an error
get_coeff_Strict(poly, index) ==
    LET i == evaluate_index(index)
    IN  IF IsErr(i) THEN Outcome(i, <<>>)
        ELSE IF i.val >= Len(poly) THEN Outcome(Err("OutOfBounds"), <<>>)
        ELSE Outcome(Ok(fmpz_poly_get_coeff_fmpz(poly, i.val)),
                     <<"fmpz_poly_get_coeff_fmpz">>)

\* get_coeff counting the coefficients from one
get_coeff_FromOne(poly, index) ==
    LET i == evaluate_index(index)
    IN  IF IsErr(i) THEN Outcome(i, <<>>)
        ELSE Outcome(Ok(fmpz_poly_get_coeff_fmpz(poly, i.val + 1)),
                     <<"fmpz_poly_get_coeff_fmpz">>)

\* get_coeff reading the coefficient before it looks at the index
get_coeff_ReadFirst(poly, index) ==
    LET i == evaluate_index(index)
    IN  IF IsErr(i) THEN Outcome(i, <<"fmpz_poly_get_coeff_fmpz">>)
        ELSE Outcome(Ok(fmpz_poly_get_coeff_fmpz(poly, i.val)),
                     <<"fmpz_poly_get_coeff_fmpz">>)

\* PolyOverZ::get_coeff(&self, index)
get_coeff(poly, index) ==
    LET i == evaluate_index(index)
    IN  IF IsErr(i) THEN Outcome(i, <<>>)
        ELSE Outcome(Ok(fmpz_poly_get_coeff_fmpz(poly, i.val)),
                     <<"fmpz_poly_get_coeff_fmpz">>)

----------------------------------------------------------------------------
(* The engine: text to rational polynomial (mpq_set_str, fmpq_poly_set_str) *)

\* the position of the first c in s, 0 when there is none
FirstIndex(s, c) ==
    IF Occurs(s, c)
    THEN CHOOSE i \in 1 .. Len(s) : s[i] = c /\ \A j \in 1 .. (i - 1) : s[j] # c
    ELSE 0

RECURSIVE GCD(_, _)
GCD(a, b) == IF b = 0 THEN Abs(a) ELSE GCD(Abs(b), Abs(a) % Abs(b))

LCM(a, b) == IF a = 0 \/ b = 0 THEN 0 ELSE (Abs(a) * Abs(b)) \div GCD(a, b)

\* mpq_set_str(q, str, base): "num" or "num/den", each read by mpz_set_str and
\* not reduced; the denominator is not zero (the engine is undefined on it)
mpq_set_str(s, base) ==
    LET k == FirstIndex(s, "/")
        n == mpz_set_str(IF k = 0 THEN s ELSE SubSeq(s, 1, k - 1), base)
        d == mpz_set_str(SubSeq(s, k + 1, Len(s)), base)
    IN  IF n.rc # 0 THEN [rc |-> -1]
        ELSE IF k = 0 THEN [rc |-> 0, num |-> n.value, den |-> 1]
        ELSE IF d.rc # 0 THEN [rc |-> -1]
        ELSE [rc |-> 0, num |-> n.value, den |-> d.value]

IsDigitChar(c) == c \in {"0", "1", "2", "3", "4", "5", "6", "7", "8", "9"}

\* strtol(str, &endptr, 10) on a text that starts with a digit: endptr
RECURSIVE EndOfDigits(_, _)
EndOfDigits(s, i) == IF IsDigitChar(CharAt(s, i)) THEN EndOfDigits(s, i + 1) ELSE i

\* the end of the coefficient that starts at position i: the next ' ' or the end
RECURSIVE EndOfToken(_, _)
EndOfToken(s, i) == IF i > Len(s) \/ s[i] = " " THEN i ELSE EndOfToken(s, i + 1)

\* _fmpq_poly_set_str: n coefficients from position p on, one ' ' between two
\* of them and the end of the text after the last
RECURSIVE ReadCoeffs(_, _, _, _)
ReadCoeffs(s, p, n, acc) ==
    LET e == EndOfToken(s, p)
        q == mpq_set_str(SubSeq(s, p, e - 1), 10)
    IN  IF q.rc # 0 THEN [rc |-> -1]
        ELSE IF n = 1
             THEN IF e > Len(s) THEN [rc |-> 0, a |-> Append(acc, q)] ELSE [rc |-> -1]
        ELSE IF e > Len(s) THEN [rc |-> -1]
        ELSE ReadCoeffs(s, e + 1, n - 1, Append(acc, q))

RECURSIVE LcmOfDens(_)
LcmOfDens(a) == IF a = <<>> THEN 1 ELSE LCM(LcmOfDens(Tail(a)), Head(a).den)

\* _fmpq_poly_set_array_mpq: integer coefficients over the common denominator
fmpq_poly_set_array_mpq(a) ==
    LET d == LcmOfDens(a)
    IN  [coeffs |-> [i \in 1 .. Len(a) |->
                        a[i].num * ((d \div Abs(a[i].den)) * (IF a[i].den < 0 THEN -1 ELSE 1))],
         den |-> d]

\* _fmpq_poly_normalise: the length without the trailing zero coefficients
RECURSIVE TrimZeros(_)
TrimZeros(c) ==
    IF Len(c) > 0 /\ c[Len(c)] = 0 THEN TrimZeros(SubSeq(c, 1, Len(c) - 1)) ELSE c

RECURSIVE Content(_)
Content(c) == IF c = <<>> THEN 0 ELSE GCD(Content(Tail(c)), Head(c))

ZeroPoly == [coeffs |-> <<>>, den |-> 1]

\* fmpq_poly_set_str(poly, str): [rc |-> 0, poly |-> p] or [rc |-> -1]; the
\* text is the count, two spaces, the coefficients with one space between
fmpq_poly_set_str(s) ==
    LET e == EndOfDigits(s, 1)
        len == mpz_set_str(SubSeq(s, 1, e - 1), 10).value
        r == ReadCoeffs(s, e + 2, len, <<>>)
    IN  IF ~IsDigitChar(CharAt(s, 1)) THEN [rc |-> -1]
        ELSE IF len = 0
             THEN IF Len(s) = 1 THEN [rc |-> 0, poly |-> ZeroPoly] ELSE [rc |-> -1]
        ELSE IF CharAt(s, e) # " " \/ CharAt(s, e + 1) # " " THEN [rc |-> -1]
        ELSE IF r.rc # 0 THEN [rc |-> -1]
        ELSE [rc |-> 0,
              poly |-> [coeffs |-> TrimZeros(fmpq_poly_set_array_mpq(r.a).coeffs),
                        den |-> fmpq_poly_set_array_mpq(r.a).den]]

\* fmpq_poly_canonicalise: lowest terms over a positive denominator
fmpq_poly_canonicalise(p) ==
    LET g == GCD(Content(p.coeffs), p.den)
        sg == IF p.den < 0 THEN -g ELSE g
    IN  IF Len(p.coeffs) = 0 THEN ZeroPoly
        ELSE [coeffs |-> [i \in 1 .. Len(p.coeffs) |->
                             (Abs(p.coeffs[i]) \div g)
                               * (IF (p.coeffs[i] < 0) # (p.den < 0) THEN -1 ELSE 1)],
              den |-> p.den \div sg]

----------------------------------------------------------------------------
(* PolyOverQ: the text parser (src/rational/poly_over_q/from.rs) *)

\* s.contains("  ")
ContainsTwoSpaces(s) == \E i \in 1 .. (Len(s) - 1) : s[i] = " " /\ s[i + 1] = " "

\* from_str with the test for the two spaces the wrong way round
PolyOverQ_from_str_Swapped(s) ==
    IF ContainsNul(s) THEN Outcome(Err("InvalidStringToCStringInput"), <<>>)
    ELSE LET r == fmpq_poly_set_str(s)
         IN  IF r.rc = 0
             THEN Outcome(Ok(fmpq_poly_canonicalise(r.poly)),
                          <<"fmpq_poly_set_str", "fmpq_poly_canonicalise">>)
             ELSE IF ContainsTwoSpaces(s)
             THEN Outcome(Err("InvalidStringToPolyMissingWhitespace"),
                          <<"fmpq_poly_set_str">>)
             ELSE Outcome(Err("InvalidStringToPolyInput"), <<"fmpq_poly_set_str">>)

\* from_str that does not look at what fmpq_poly_set_str returned
PolyOverQ_from_str_Unchecked(s) ==
    IF ContainsNul(s) THEN Outcome(Err("InvalidStringToCStringInput"), <<>>)
    ELSE LET r == fmpq_poly_set_str(s)
         IN  Outcome(Ok(IF r.rc = 0 THEN fmpq_poly_canonicalise(r.poly) ELSE ZeroPoly),
                     <<"fmpq_poly_set_str", "fmpq_poly_canonicalise">>)

\* from_str without the call of fmpq_poly_canonicalise
PolyOverQ_from_str_NotCanonicalised(s) ==
    IF ContainsNul(s) THEN Outcome(Err("InvalidStringToCStringInput"), <<>>)
    ELSE LET r == fmpq_poly_set_str(s)
         IN  IF r.rc = 0
             THEN Outcome(Ok(r.poly), <<"fmpq_poly_set_str">>)
             ELSE IF ~ContainsTwoSpaces(s)
             THEN Outcome(Err("InvalidStringToPolyMissingWhitespace"),
                          <<"fmpq_poly_set_str">>)
             ELSE Outcome(Err("InvalidStringToPolyInput"), <<"fmpq_poly_set_str">>)

\* from_str handing the text to the engine before it is made a CString
PolyOverQ_from_str_EngineFirst(s) ==
    LET r == fmpq_poly_set_str(s)
    IN  IF ContainsNul(s)
        THEN Outcome(Err("InvalidStringToCStringInput"), <<"fmpq_poly_set_str">>)
        ELSE IF r.rc = 0
        THEN Outcome(Ok(fmpq_poly_canonicalise(r.poly)),
                     <<"fmpq_poly_set_str", "fmpq_poly_canonicalise">>)
        ELSE IF ~ContainsTwoSpaces(s)
        THEN Outcome(Err("InvalidStringToPolyMissingWhitespace"),
                     <<"fmpq_poly_set_str">>)
        ELSE Outcome(Err("InvalidStringToPolyInput"), <<"fmpq_poly_set_str">>)

\* PolyOverQ::from_str(s)
PolyOverQ_from_str(s) ==
    IF ContainsNul(s) THEN Outcome(Err("InvalidStringToCStringInput"), <<>>)
    ELSE LET r == fmpq_poly_set_str(s)
         IN  IF r.rc = 0
             THEN Outcome(Ok(fmpq_poly_canonicalise(r.poly)),
                          <<"fmpq_poly_set_str", "fmpq_poly_canonicalise">>)
             ELSE IF ~ContainsTwoSpaces(s)
             THEN Outcome(Err("InvalidStringToPolyMissingWhitespace"),
                          <<"fmpq_poly_set_str">>)
             ELSE Outcome(Err("InvalidStringToPolyInput"), <<"fmpq_poly_set_str">>)

----------------------------------------------------------------------------
(* PolyOverZ: the text codec (src/integer/poly_over_z/to_string.rs) *)

\* the texts of a sequence, with sep between two of them
RECURSIVE Join(_, _)
Join(texts, sep) ==
    IF Len(texts) = 0 THEN <<>>
    ELSE IF Len(texts) = 1 THEN texts[1]
    ELSE texts[1] \o sep \o Join(Tail(texts), sep)

\* the length, sep, and the coefficients in base ten with one space between
\* two of them; "0" for no coefficients
WritePolyText(poly, sep) ==
    IF Len(poly) = 0 THEN <<"0">>
    ELSE fmpz_get_str(Len(poly), 10) \o sep
           \o Join([i \in 1 .. Len(poly) |-> fmpz_get_str(poly[i], 10)], <<" ">>)

\* fmpz_poly_get_str(poly): the text with two spaces after the length
fmpz_poly_get_str(poly) == WritePolyText(poly, <<" ", " ">>)

\* fmt that writes one space after the length
PolyOverZ_fmt_SingleSpace(poly) ==
    Outcome(Ok(WritePolyText(poly, <<" ">>)),
            <<"fmpz_poly_get_str", "CStr::from_ptr", "free">>)

\* impl Display for PolyOverZ: fmt(&self, f), the text written to f
PolyOverZ_fmt(poly) ==
    Outcome(Ok(fmpz_poly_get_str(poly)),
            <<"fmpz_poly_get_str", "CStr::from_ptr", "free">>)

\* n integer coefficients from position p on, one ' ' between two of them and
\* the end of the text after the last
RECURSIVE ReadZCoeffs(_, _, _, _)
ReadZCoeffs(s, p, n, acc) ==
    LET e == EndOfToken(s, p)
        z == mpz_set_str(SubSeq(s, p, e - 1), 10)
    IN  IF z.rc # 0 THEN [rc |-> -1]
        ELSE IF n = 1
             THEN IF e > Len(s) THEN [rc |-> 0, a |-> Append(acc, z.value)] ELSE [rc |-> -1]
        ELSE IF e > Len(s) THEN [rc |-> -1]
        ELSE ReadZCoeffs(s, e + 1, n - 1, Append(acc, z.value))

\* fmpz_poly_set_str(poly, str): the grammar of the text of a polynomial, the
\* polynomial trimmed
fmpz_poly_set_str(s) ==
    LET e == EndOfDigits(s, 1)
        len == mpz_set_str(SubSeq(s, 1, e - 1), 10).value
        r == ReadZCoeffs(s, e + 2, len, <<>>)
    IN  IF ~IsDigitChar(CharAt(s, 1)) THEN [rc |-> -1]
        ELSE IF len = 0
             THEN IF Len(s) = 1 THEN [rc |-> 0, poly |-> <<>>] ELSE [rc |-> -1]
        ELSE IF CharAt(s, e) # " " \/ CharAt(s, e + 1) # " " THEN [rc |-> -1]
        ELSE IF r.rc # 0 THEN [rc |-> -1]
        ELSE [rc |-> 0, poly |-> TrimZeros(r.a)]

\* PolyOverZ::from_str(s)
PolyOverZ_from_str(s) ==
    IF ContainsNul(s) THEN Outcome(Err("InvalidStringToCStringInput"), <<>>)
    ELSE LET r == fmpz_poly_set_str(s)
         IN  IF r.rc = 0 THEN Outcome(Ok(r.poly), <<"fmpz_poly_set_str">>)
             ELSE IF ~ContainsTwoSpaces(s)
             THEN Outcome(Err("InvalidStringToPolyMissingWhitespace"),
                          <<"fmpz_poly_set_str">>)
             ELSE Outcome(Err("InvalidStringToPolyInput"), <<"fmpz_poly_set_str">>)

----------------------------------------------------------------------------
(* The calls of the model *)

\* the characters of the texts handed to Z::from_str_b
ZChars == {"0", "1", "a", "Z", "-", "/", " ", "\t", NUL}

Strings(chars, n) == UNION {[1 .. k -> chars] : k \in 0 .. n}

\* the bases tried with every text: both ends of the range, either side
StrBases == {-1, 0, 1, 2, 10, 11, 16, 36, 37, 62, 63}

\* the bases tried with every value: i32 values around the whole range
AllBases == -1 .. BASE_MAX + 2

\* every short text in every base, and the binary text of the tests
FromStrCalls ==
    [op : {"from_str_b"}, s : Strings(ZChars, MaxStrLen), base : StrBases]
      \cup {[op |-> "from_str_b", s |-> <<"-", "1", "0", "1", "0", "0">>, base |-> 2]}
ToStringCalls == [op : {"to_string_b"}, x : ZValues, base : AllBases]
TryFromCalls == [op : {"try_from"}, x : ZValues]

\* Modulus::try_from(&Z::from(n)) for a positive n: one value holding the
\* context, whose storage keeps n
Modulus_try_from(n) ==
    [heap |-> <<[n |-> n, storage |-> "initialised", strong |-> 1]>>,
     value |-> [modulus |-> 1]]

\* Clone for Modulus, the clone being kept by the caller: one more value
\* holds the same context
Modulus_clone(o) == [o EXCEPT !.heap[o.value.modulus].strong = @ + 1]

\* Drop for Modulus: the count of the context goes down by one, and the
\* value that held it alone clears it with fmpz_mod_ctx_clear
Modulus_drop(heap, modulus) ==
    IF heap[modulus].strong <= 1
    THEN [heap |-> [heap EXCEPT ![modulus].strong = @ - 1,
                                ![modulus].storage = "cleared"],
          eng |-> <<"fmpz_mod_ctx_clear">>]
    ELSE [heap |-> [heap EXCEPT ![modulus].strong = @ - 1], eng |-> <<>>]

\* Zq::try_from((value, modulus)): the canonical representative under a
\* context of its own
Zq_try_from(value, modulus) ==
    [heap |-> <<[n |-> modulus, storage |-> "initialised", strong |-> 1],
                [n |-> ((value % modulus) + modulus) % modulus,
                 storage |-> "initialised"]>>,
     value |-> [value |-> 2, modulus |-> 1]]

\* from_modulus returning an integer that shares the storage of the context
from_modulus_Shallow(heap, value) ==
    [heap |-> Modulus_drop(heap, value.modulus).heap,
     ret |-> [value |-> value.modulus],
     eng |-> Modulus_drop(heap, value.modulus).eng]

\* Z::from_modulus(value): Z::default(), fmpz_set copies n of the context
\* into it, and the Modulus passed by value is dropped on return
from_modulus(heap, value) ==
    LET out == Len(heap) + 1
        set == Append(heap, [n |-> heap[value.modulus].n, storage |-> "initialised"])
    IN  [heap |-> Modulus_drop(set, value.modulus).heap,
         ret |-> [value |-> out],
         eng |-> <<"fmpz_set">> \o Modulus_drop(set, value.modulus).eng]

\* Z::from_zq(value): the field value.value is moved out, and the rest of the
\* Zq, its modulus, is dropped on return
from_zq(heap, value) ==
    [heap |-> Modulus_drop(heap, value.modulus).heap,
     ret |-> [value |-> value.value],
     eng |-> Modulus_drop(heap, value.modulus).eng]

\* Z::from_zq and Z::from_modulus, for moduli at both ends of a word and
\* beyond, values below, inside and above the range of the modulus, and a
\* context held by the value alone or by a clone as well
ModularCalls ==
    [op : {"from_zq"}, x : (I64_MIN - 1) .. (U64_MAX + 2),
     modulus : {1, 2, 5, I64_MAX, U64_MAX, U64_MAX + 2}, holders : {1, 2}]
      \cup [op : {"from_modulus"}, modulus : 1 .. (U64_MAX + 2), holders : {1, 2}]

\* Z::from_<type>(value) and Z::from(value), for every value of every type
FromCalls ==
    {c \in [op : {"from_type", "from_trait"}, type : IntTypes,
            value : I64_MIN .. U64_MAX] : c.value \in IntRange(c.type)}

InitZ ==
    /\ call \in FromStrCalls \cup ToStringCalls \cup TryFromCalls \cup FromCalls
                  \cup ModularCalls
    /\ obj = CASE call.op \in {"from_str_b", "from_type", "from_trait"} -> None
               [] call.op = "from_zq" ->
                    IF call.holders = 1 THEN Zq_try_from(call.x, call.modulus)
                    ELSE Modulus_clone(Zq_try_from(call.x, call.modulus))
               [] call.op = "from_modulus" ->
                    IF call.holders = 1 THEN Modulus_try_from(call.modulus)
                    ELSE Modulus_clone(Modulus_try_from(call.modulus))
               [] OTHER -> call.x
    /\ pc = "call"
    /\ ret = None
    /\ eng = <<>>
    /\ back = None

\* Z::from_str_b(call.s, call.base)
FromStrB ==
    /\ pc = "call"
    /\ call.op = "from_str_b"
    /\ ret' = from_str_b(call.s, call.base).ret
    /\ eng' = from_str_b(call.s, call.base).eng
    /\ pc' = "done"
    /\ UNCHANGED <<call, obj, back>>

\* obj.to_string_b(call.base), obj being Z::from(call.x)
ToStringB ==
    /\ pc = "call"
    /\ call.op = "to_string_b"
    /\ ret' = to_string_b(obj, call.base).ret
    /\ eng' = to_string_b(obj, call.base).eng
    /\ pc' = "done"
    /\ UNCHANGED <<call, obj, back>>

\* the text to_string_b returned is handed to Z::from_str_b, in the same base
ParseBack ==
    /\ pc = "done"
    /\ call.op = "to_string_b"
    /\ IsOk(ret)
    /\ back' = from_str_b(ret.val, call.base).ret
    /\ eng' = eng \o from_str_b(ret.val, call.base).eng
    /\ pc' = "back"
    /\ UNCHANGED <<call, obj, ret>>

\* i64::try_from(&obj), obj being Z::from(call.x); back keeps what
\* fmpz_get_si returned
TryFromI64 ==
    /\ pc = "call"
    /\ call.op = "try_from"
    /\ \E v \in fmpz_get_si(obj) :
          /\ ret' = try_from(obj, v).ret
          /\ eng' = try_from(obj, v).eng
          /\ back' = v
    /\ pc' = "done"
    /\ UNCHANGED <<call, obj>>

\* Z::from_<type>(call.value) or Z::from(call.value); the integer is kept in
\* obj
FromInt ==
    /\ pc = "call"
    /\ call.op \in {"from_type", "from_trait"}
    /\ LET z == IF call.op = "from_trait" THEN from_trait(call.type, call.value)
                ELSE IF call.type = "i64" THEN from_i64(call.value)
                ELSE IF call.type = "u64" THEN from_u64(call.value)
                ELSE from_type(call.type, call.value)
       IN  /\ ret' = z
           /\ obj' = z
    /\ eng' = <<IF IsSigned(call.type) THEN "fmpz_init_set_si"
                ELSE "fmpz_init_set_ui">>
    /\ pc' = "done"
    /\ UNCHANGED <<call, back>>

\* obj.to_string(), obj being the integer Z::from returned: Display writes
\* to_string_b(10).unwrap()
FromIntToString ==
    /\ pc = "done"
    /\ call.op \in {"from_type", "from_trait"}
    /\ back' = to_string_b(obj, 10).ret.val
    /\ eng' = eng \o to_string_b(obj, 10).eng
    /\ pc' = "back"
    /\ UNCHANGED <<call, obj, ret>>

\* Z::from_zq(obj.value) or Z::from_modulus(obj.value): obj keeps the storage
\* after the call, ret the integer returned
FromModular ==
    /\ pc = "call"
    /\ call.op \in {"from_zq", "from_modulus"}
    /\ LET Return(r) == /\ obj' = [heap |-> r.heap, value |-> "dropped"]
                        /\ ret' = r.ret
                        /\ eng' = r.eng
       IN  IF call.op = "from_zq" THEN Return(from_zq(obj.heap, obj.value))
           ELSE Return(from_modulus(obj.heap, obj.value))
    /\ pc' = "done"
    /\ UNCHANGED <<call, back>>

NextZ ==
    \/ FromStrB
    \/ ToStringB
    \/ ParseBack
    \/ TryFromI64
    \/ FromInt
    \/ FromIntToString
    \/ FromModular

SpecZ == InitZ /\ [][NextZ]_vars

----------------------------------------------------------------------------
(* Claims about Z, checked under SpecZ *)

\* the digits of a base, written out from the two alphabets of GMP
ValidDigits(base) ==
    IF base > 36
    THEN {UpperLowerDigits[i] : i \in 1 .. base}
    ELSE {LowerDigits[i] : i \in 1 .. base} \cup {UpperLowerDigits[i] : i \in 11 .. base}

\* an optional single leading '-' followed by at least one digit of the base
WellFormedZ(s, base) ==
    LET digits == IF Len(s) > 0 /\ s[1] = "-" THEN Tail(s) ELSE s
    IN  /\ Len(digits) >= 1
        /\ \A i \in 1 .. Len(digits) : digits[i] \in ValidDigits(base)

\* C1: for every integer x and every base b in [2,62], to_string_b(b) succeeds
\* and from_str_b of the returned text in base b succeeds and returns x.
C1_RoundTrip ==
    (call.op = "to_string_b" /\ call.base >= 2 /\ call.base <= 62) =>
        /\ pc = "done" => IsOk(ret)
        /\ pc = "back" => back = Ok(call.x)

C1_Witness ==
    /\ pc = "back"
    /\ call.op = "to_string_b"
    /\ call.base = 62
    /\ call.x = -61
    /\ ret = Ok(<<"-", "z">>)
    /\ back = Ok(-61)

\* C2: from_str_b and to_string_b return OutOfBounds exactly for the bases
\* outside [2,62], whatever the text (malformed or not) or the value is.
C2_OutOfBoundsIffBase ==
    (pc = "done" /\ call.op \in {"from_str_b", "to_string_b"}) =>
        (IsErrOf(ret, "OutOfBounds") <=> (call.base < 2 \/ call.base > 62))

C2_Witness ==
    /\ pc = "done"
    /\ call.op = "from_str_b"
    /\ call.base = 63
    /\ call.s = <<"-", " ", NUL>>
    /\ IsErrOf(ret, "OutOfBounds")

\* C3: for a base in [2,62], from_str_b rejects every text with a white-space
\* character at any position or with a NUL byte; the error is one of the
\* malformed-input errors, never OutOfBounds, and no Z is produced.
C3_WhitespaceOrNulRejected ==
    (/\ pc = "done"
     /\ call.op = "from_str_b"
     /\ call.base >= 2 /\ call.base <= 62
     /\ \E i \in 1 .. Len(call.s) : call.s[i] \in {" ", "\t", NUL}) =>
        /\ IsErr(ret)
        /\ ret.err \in {"InvalidStringToZInput", "InvalidStringToCStringInput"}

C3_Witness ==
    /\ pc = "done"
    /\ call.op = "from_str_b"
    /\ call.base = 10
    /\ call.s = <<"-", " ", "1">>
    /\ IsErrOf(ret, "InvalidStringToZInput")
    /\ eng = <<>>

\* C4 as stated: for a base in [2,62], from_str_b succeeds exactly on the
\* well-formed texts, and every other text is rejected with
\* InvalidStringToZInput.
C4_Original ==
    (pc = "done" /\ call.op = "from_str_b" /\ call.base >= 2 /\ call.base <= 62) =>
        IF WellFormedZ(call.s, call.base)
        THEN IsOk(ret)
        ELSE IsErrOf(ret, "InvalidStringToZInput")

\* C4 as amended: for a base in [2,62], from_str_b succeeds exactly on the
\* well-formed texts; every other text is rejected, with
\* InvalidStringToCStringInput when it holds a NUL byte and no white space and
\* with InvalidStringToZInput otherwise.
C4_WellFormedIffOk ==
    (pc = "done" /\ call.op = "from_str_b" /\ call.base >= 2 /\ call.base <= 62) =>
        IF WellFormedZ(call.s, call.base)
        THEN IsOk(ret)
        ELSE IsErrOf(ret,
                     IF (\E i \in 1 .. Len(call.s) : call.s[i] = NUL)
                        /\ ~(\E i \in 1 .. Len(call.s) : call.s[i] \in {" ", "\t"})
                     THEN "InvalidStringToCStringInput"
                     ELSE "InvalidStringToZInput")

C4_Witness ==
    /\ pc = "done"
    /\ call.op = "from_str_b"
    /\ call.base = 10
    /\ call.s = <<"1", "-", "1">>
    /\ IsErrOf(ret, "InvalidStringToZInput")
    /\ eng = <<"fmpz_set_str">>

\* C5: i64::try_from(&Z) returns Ok(v) exactly when the value lies in
\* [i64::MIN, i64::MAX], and then v is the value; for every value outside it
\* returns a ConversionError.
C5_TryFromExact ==
    (pc = "done" /\ call.op = "try_from") =>
        IF call.x >= I64_MIN /\ call.x <= I64_MAX
        THEN ret = Ok(call.x)
        ELSE IsErrOf(ret, "ConversionError")

C5_Witness ==
    /\ pc = "done"
    /\ call.op = "try_from"
    /\ call.x = -U64_MAX
    /\ IsErrOf(ret, "ConversionError")

----------------------------------------------------------------------------
(* Setters for values of other types (src/macros/for_others.rs) *)

\* a list of coefficients without the zeros at its end
RECURSIVE Trimmed(_)
Trimmed(coeffs) ==
    IF Len(coeffs) > 0 /\ coeffs[Len(coeffs)] = 0
    THEN Trimmed(SubSeq(coeffs, 1, Len(coeffs) - 1))
    ELSE coeffs

\* SetCoefficient<&Z> for PolyOverZ: set_coeff(&mut self, index, value: &Z);
\* the index is checked, then fmpz_poly_set_coeff_fmpz stores the value, the
\* storage growing as needed and the length following the last coefficient
\* that is not zero
PolyOverZ_set_coeff(self, index, value) ==
    LET i == evaluate_index(index[1])
        Set(n) == [k \in 1 .. (IF n < Len(self) THEN Len(self) ELSE n + 1) |->
                     IF k = n + 1 THEN value
                     ELSE IF k <= Len(self) THEN self[k] ELSE 0]
    IN  IF IsErr(i) THEN [ret |-> i, self |-> self, eng |-> <<>>]
        ELSE [ret |-> Ok("()"), self |-> Trimmed(Set(i.val)),
              eng |-> <<"fmpz_poly_set_coeff_fmpz">>]

\* SetEntry<&Z> for MatZq: set_entry(&mut self, row, column, value: &Z); row
\* and column are checked against the dimensions, then the representative of
\* the value is stored
MatZq_set_entry(self, index, value) ==
    LET row == evaluate_index(index[1])
        column == evaluate_index(index[2])
    IN  IF IsErr(row) \/ IsErr(column)
        THEN [ret |-> Err("OutOfBounds"), self |-> self, eng |-> <<>>]
        ELSE IF row.val >= Len(self.rows) \/ column.val >= Len(self.rows[1])
        THEN [ret |-> Err("OutOfBounds"), self |-> self, eng |-> <<>>]
        ELSE [ret |-> Ok("()"),
              self |-> [self EXCEPT !.rows[row.val + 1][column.val + 1] =
                                      ((value % self.mod) + self.mod) % self.mod],
              eng |-> <<"fmpz_mod_mat_set_entry">>]

\* implement_for_owned!(Z, <type>, SetCoefficient) and (Z, <type>, SetEntry):
\* self.set_coeff(index, &value), self.set_entry(row, column, &value)
implement_for_owned(trait, self, index, value) ==
    LET Forward(r) == [r EXCEPT !.eng = <<trait \o "<&Z>">> \o @]
    IN  IF trait = "SetCoefficient"
        THEN Forward(PolyOverZ_set_coeff(self, index, value))
        ELSE Forward(MatZq_set_entry(self, index, value))

\* the form for other types handing the index on as a 64-bit signed integer
implement_for_others_IndexCast(trait, source_type, self, index, value) ==
    LET Forward(r) ==
          [r EXCEPT !.eng = <<IF IsSigned(source_type) THEN "fmpz_init_set_si"
                              ELSE "fmpz_init_set_ui",
                              trait \o "<Z>">> \o @]
    IN  Forward(implement_for_owned(trait, self,
                                    [k \in 1 .. Len(index) |-> as_i64(index[k])],
                                    from_trait(source_type, value)))

\* implement_for_others!(Z, <type>, SetCoefficient for ...) and (Z, <type>,
\* SetEntry for ...): self.set_coeff(index, Z::from(value)),
\* self.set_entry(row, column, Z::from(value)); Z::from makes the integer
\* with fmpz_init_set_si or fmpz_init_set_ui before the impl for a Z is
\* entered
implement_for_others(trait, source_type, self, index, value) ==
    LET Forward(r) ==
          [r EXCEPT !.eng = <<IF IsSigned(source_type) THEN "fmpz_init_set_si"
                              ELSE "fmpz_init_set_ui",
                              trait \o "<Z>">> \o @]
    IN  Forward(implement_for_owned(trait, self, index,
                                    from_trait(source_type, value)))

----------------------------------------------------------------------------
(* PolyOverZ: the calls and the claims, checked under SpecPolyZ *)

\* the coefficients of the stored polynomials: small ones of either sign, and
\* ones that do not fit an i64 or a u64
PolyCoeffs == {0, 1, -3, I64_MIN, U64_MAX, -(U64_MAX + 1)}

\* the stored polynomials: the leading coefficient of a non-empty one is not 0
Polys == {p \in Strings(PolyCoeffs, MaxPolyLen) : Len(p) = 0 \/ p[Len(p)] # 0}

\* the values of the indices, of any integer type: i64 and beyond on both sides
IndexValues == (I64_MIN - 2) .. (U64_MAX + 2)

GetCoeffCalls == [op : {"get_coeff"}, poly : Polys, index : IndexValues]

\* the texts handed to PolyOverZ::from_str: every list of coefficients written
\* out (a last coefficient of zero included), with two spaces after the
\* length and with one
PolyZTexts ==
    {WritePolyText(c, sep) : c \in Strings(PolyCoeffs, MaxPolyLen),
                             sep \in {<<" ", " ">>, <<" ">>}}

PolyZToStringCalls == [op : {"PolyOverZ_to_string"}, poly : Polys]
PolyZFromStrCalls == [op : {"PolyOverZ_from_str"}, s : PolyZTexts]

\* set_coeff on a polynomial and set_entry on a matrix modulo 5, with a
\* value that is a &Z, a Z, an i64 or a u64, and indices below, inside and
\* above the range of an i64
SetCalls ==
    {c \in [op : {"set"}, trait : {"SetCoefficient"},
            type : {"&Z", "Z", "i64", "u64"},
            self : {p \in Polys : Len(p) <= 1},
            index : {I64_MIN - 1, -1, 0, 1, 2, I64_MAX, I64_MAX + 1, U64_MAX + 2}
                      \X {0},
            value : {I64_MIN, -3, 0, 1, I64_MAX, U64_MAX}]
          \cup [op : {"set"}, trait : {"SetEntry"},
                type : {"&Z", "Z", "i64", "u64"},
                self : {[rows |-> <<<<0, 1>>>>, mod |-> 5]},
                index : {-1, 0, 1} \X {-1, 0, 1, 2, I64_MAX + 1, U64_MAX + 2},
                value : {I64_MIN, -3, 0, 1, I64_MAX, U64_MAX}] :
        c.type \in IntTypes => c.value \in IntRange(c.type)}

InitPolyZ ==
    /\ call \in GetCoeffCalls \cup PolyZToStringCalls \cup PolyZFromStrCalls
                  \cup {c \in ToStringCalls : c.base \in {1, 2, 62}}
                  \cup SetCalls
    /\ obj = CASE call.op = "PolyOverZ_from_str" -> None
               [] call.op = "to_string_b" -> call.x
               [] call.op = "set" -> call.self
               [] OTHER -> call.poly
    /\ pc = "call"
    /\ ret = None
    /\ eng = <<>>
    /\ back = None

\* obj.get_coeff(call.index), obj being the polynomial call.poly
GetCoeff ==
    /\ pc = "call"
    /\ call.op = "get_coeff"
    /\ ret' = get_coeff(obj, call.index).ret
    /\ eng' = get_coeff(obj, call.index).eng
    /\ pc' = "done"
    /\ UNCHANGED <<call, obj, back>>

\* obj.to_string(), obj being the polynomial call.poly
PolyZToString ==
    /\ pc = "call"
    /\ call.op = "PolyOverZ_to_string"
    /\ ret' = PolyOverZ_fmt(obj).ret
    /\ eng' = PolyOverZ_fmt(obj).eng
    /\ pc' = "done"
    /\ UNCHANGED <<call, obj, back>>

\* the text to_string returned is handed to PolyOverZ::from_str
PolyZParseBack ==
    /\ pc = "done"
    /\ call.op = "PolyOverZ_to_string"
    /\ back' = PolyOverZ_from_str(ret.val).ret
    /\ eng' = eng \o PolyOverZ_from_str(ret.val).eng
    /\ pc' = "back"
    /\ UNCHANGED <<call, obj, ret>>

\* PolyOverZ::from_str(call.s); the polynomial it returns is kept in obj
PolyZFromStr ==
    /\ pc = "call"
    /\ call.op = "PolyOverZ_from_str"
    /\ ret' = PolyOverZ_from_str(call.s).ret
    /\ eng' = PolyOverZ_from_str(call.s).eng
    /\ obj' = IF IsOk(PolyOverZ_from_str(call.s).ret)
              THEN PolyOverZ_from_str(call.s).ret.val
              ELSE obj
    /\ pc' = "done"
    /\ UNCHANGED <<call, back>>

\* the polynomial from_str returned is written out with to_string
PolyZFormatBack ==
    /\ pc = "done"
    /\ call.op = "PolyOverZ_from_str"
    /\ IsOk(ret)
    /\ back' = PolyOverZ_fmt(obj).ret
    /\ eng' = eng \o PolyOverZ_fmt(obj).eng
    /\ pc' = "back"
    /\ UNCHANGED <<call, obj, ret>>

\* obj.set_coeff(index, value) or obj.set_entry(row, column, value), through
\* the impl for the type of the value
SetValue ==
    /\ pc = "call"
    /\ call.op = "set"
    /\ LET Return(r) == /\ ret' = r.ret
                        /\ obj' = r.self
                        /\ eng' = r.eng
       IN  CASE call.type = "&Z" ->
                  Return(IF call.trait = "SetCoefficient"
                         THEN PolyOverZ_set_coeff(obj, call.index, call.value)
                         ELSE MatZq_set_entry(obj, call.index, call.value))
             [] call.type = "Z" ->
                  Return(implement_for_owned(call.trait, obj, call.index, call.value))
             [] OTHER ->
                  Return(implement_for_others(call.trait, call.type, obj,
                                              call.index, call.value))
    /\ pc' = "done"
    /\ UNCHANGED <<call, back>>

NextPolyZ ==
    \/ SetValue
    \/ GetCoeff
    \/ PolyZToString
    \/ PolyZParseBack
    \/ PolyZFromStr
    \/ PolyZFormatBack
    \/ ToStringB

SpecPolyZ == InitPolyZ /\ [][NextPolyZ]_vars

\* C6: for a polynomial of stored length n and an index i, 0 <= i <= i64::MAX,
\* get_coeff(i) returns Ok with the stored coefficient when i < n and Ok(0)
\* when i >= n, and leaves the polynomial as it was.
C6_GetCoeffValue ==
    (pc = "done" /\ call.op = "get_coeff" /\ call.index >= 0 /\ call.index <= I64_MAX) =>
        /\ ret = Ok(IF call.index < Len(call.poly) THEN call.poly[call.index + 1] ELSE 0)
        /\ obj = call.poly

C6_Witness ==
    /\ pc = "done"
    /\ call.op = "get_coeff"
    /\ call.poly = <<-(U64_MAX + 1), 1, -3>>
    /\ call.index = 3
    /\ ret = Ok(0)
    /\ obj = call.poly

\* C7 as stated: get_coeff returns Ok for every non-negative index of any
\* integer type the index parameter accepts.
C7_Original ==
    (pc = "done" /\ call.op = "get_coeff" /\ call.index >= 0) => IsOk(ret)

\* C7 as amended: get_coeff returns Ok for every non-negative index that fits
\* an i64 (zero when the index is at or beyond the stored length); a
\* non-negative index that does not fit an i64 is an OutOfBounds error.
C7_NonNegativeFittingIndexOk ==
    (pc = "done" /\ call.op = "get_coeff" /\ call.index >= 0) =>
        IF call.index <= I64_MAX
        THEN IsOk(ret) /\ (call.index >= Len(call.poly) => ret = Ok(0))
        ELSE IsErrOf(ret, "OutOfBounds")

C7_Witness ==
    /\ pc = "done"
    /\ call.op = "get_coeff"
    /\ call.index = I64_MAX
    /\ Len(call.poly) = 2
    /\ ret = Ok(0)

\* C8: get_coeff returns OutOfBounds if the index is negative or does not fit
\* an i64, before the polynomial storage is read; an index at or beyond the
\* stored length is not reported through this error.
C8_IndexErrorBeforeRead ==
    (pc = "done" /\ call.op = "get_coeff") =>
        /\ (call.index < 0 \/ call.index > I64_MAX) =>
               (IsErrOf(ret, "OutOfBounds") /\ eng = <<>>)
        /\ (call.index >= 0 /\ call.index <= I64_MAX) => ~IsErr(ret)

C8_Witness ==
    /\ pc = "done"
    /\ call.op = "get_coeff"
    /\ call.index = -1
    /\ Len(call.poly) = 3
    /\ IsErrOf(ret, "OutOfBounds")
    /\ eng = <<>>

----------------------------------------------------------------------------
(* PolyOverQ: the calls and the claims, checked under SpecPolyQ *)

\* the counts written at the start of a text, up to one more than the
\* coefficients a text can hold
QCounts == {DigitsOf(n, 10, LowerDigits) : n \in 0 .. (MaxTokens + 1)}

\* what separates the count from the coefficients, and two coefficients
QFirstSeps == {<<" ">>, <<" ", " ">>, <<" ", " ", " ">>}
QCoeffSeps == {<<" ">>, <<" ", " ">>}

\* the coefficients: integers, a fraction not in lowest terms, two divisors,
\* an integer after a tab
QTokens == {<<"1">>, <<"0">>, <<"2", "/", "4">>, <<"-", "3", "/", "2", "/", "3">>,
            <<"\t", "1">>}

\* k coefficients, each two of them separated
RECURSIVE QBodies(_)
QBodies(k) ==
    IF k = 1 THEN QTokens
    ELSE {b \o sep \o tok : b \in QBodies(k - 1), sep \in QCoeffSeps, tok \in QTokens}

\* texts of the shape count, separator, coefficients; the counts alone; and
\* every short text over a few characters
QTexts ==
    {c \o sep \o b : c \in QCounts, sep \in QFirstSeps,
                     b \in UNION {QBodies(k) : k \in 1 .. MaxTokens}}
      \cup QCounts
      \cup Strings({"1", " ", "/", "x", NUL}, 3)
      \cup {<<"1", " ", " ", "1", "\n">>, <<"1", " ", " ", "1", "\t", "/", "2">>}

FromStrQCalls == [op : {"PolyOverQ_from_str"}, s : QTexts]

\* the coefficients of the texts parsed two at a time: zero, an integer, one
\* half written in three ways (one with two negative parts), a negative one
PairTokens == {<<"0">>, <<"1">>, <<"1", "/", "2">>, <<"2", "/", "4">>,
               <<"-", "1", "/", "-", "2">>, <<"-", "2", "/", "3">>}

\* k coefficients with one space between two of them
RECURSIVE PairBodies(_)
PairBodies(k) ==
    IF k = 1 THEN PairTokens
    ELSE {b \o <<" ">> \o tok : b \in PairBodies(k - 1), tok \in PairTokens}

\* texts in the grammar: the count, two spaces, as many coefficients; and "0"
PairTexts ==
    UNION {{DigitsOf(k, 10, LowerDigits) \o <<" ", " ">> \o b : b \in PairBodies(k)} :
              k \in 1 .. (MaxTokens - 1)}
      \cup {<<"0">>}

\* two calls of PolyOverQ::from_str, one after the other, as the tests make them
FromStrQPairCalls == [op : {"PolyOverQ_from_str_twice"}, s : PairTexts, t : PairTexts]

InitPolyQ ==
    /\ call \in FromStrQCalls \cup FromStrQPairCalls
    /\ obj = None
    /\ pc = "call"
    /\ ret = None
    /\ eng = <<>>
    /\ back = None

\* PolyOverQ::from_str(call.s)
FromStrQ ==
    /\ pc = "call"
    /\ call.op \in {"PolyOverQ_from_str", "PolyOverQ_from_str_twice"}
    /\ ret' = PolyOverQ_from_str(call.s).ret
    /\ eng' = PolyOverQ_from_str(call.s).eng
    /\ pc' = "done"
    /\ UNCHANGED <<call, obj, back>>

\* the second call: PolyOverQ::from_str(call.t)
FromStrQOther ==
    /\ pc = "done"
    /\ call.op = "PolyOverQ_from_str_twice"
    /\ back' = PolyOverQ_from_str(call.t).ret
    /\ eng' = eng \o PolyOverQ_from_str(call.t).eng
    /\ pc' = "back"
    /\ UNCHANGED <<call, obj, ret>>

NextPolyQ == FromStrQ \/ FromStrQOther

SpecPolyQ == InitPolyQ /\ [][NextPolyQ]_vars

\* the pieces of a text between its spaces, empty between two adjacent spaces
RECURSIVE Split(_, _)
Split(s, c) ==
    IF FirstIndex(s, c) = 0 THEN <<s>>
    ELSE <<SubSeq(s, 1, FirstIndex(s, c) - 1)>>
           \o Split(SubSeq(s, FirstIndex(s, c) + 1, Len(s)), c)

IsDecimal(t) == Len(t) >= 1 /\ \A i \in 1 .. Len(t) : IsDigitChar(t[i])

RECURSIVE NatOf(_)
NatOf(t) ==
    IF t = <<>> THEN 0
    ELSE 10 * NatOf(SubSeq(t, 1, Len(t) - 1)) + (IndexOf(LowerDigits, t[Len(t)]) - 1)

\* an integer, or two integers around one '/'
WellFormedScalar(t) ==
    /\ Len(Split(t, "/")) \in {1, 2}
    /\ \A i \in 1 .. Len(Split(t, "/")) : WellFormedZ(Split(t, "/")[i], 10)

\* the grammar of the text of a polynomial: the count, two spaces, and as many
\* scalars as the count says with one space between two of them; "0" alone
MatchesPolyGrammar(s) ==
    LET parts == Split(s, " ")
    IN  \/ s = <<"0">>
        \/ /\ Len(parts) >= 3
           /\ IsDecimal(parts[1])
           /\ parts[2] = <<>>
           /\ NatOf(parts[1]) = Len(parts) - 2
           /\ \A i \in 3 .. Len(parts) : WellFormedScalar(parts[i])

\* the count, one space, and something that is not a space
SingleSpaceAfterCount(s) ==
    LET e == EndOfDigits(s, 1)
    IN  e > 1 /\ e < Len(s) /\ s[e] = " " /\ s[e + 1] # " "

\* C9 as stated: from_str fails with InvalidStringToPolyMissingWhitespace
\* whenever the count and the coefficients are separated by a single space.
C9_Original ==
    (pc = "done" /\ call.op = "PolyOverQ_from_str" /\ SingleSpaceAfterCount(call.s)) =>
        IsErrOf(ret, "InvalidStringToPolyMissingWhitespace")

\* C9 as amended: from_str fails whenever the count and the coefficients are
\* separated by a single space; the error is
\* InvalidStringToPolyMissingWhitespace when the text holds no two consecutive
\* spaces anywhere and no NUL byte, InvalidStringToPolyInput when it holds two
\* consecutive spaces further on, and InvalidStringToCStringInput when it
\* holds a NUL byte.
C9_SingleSpaceFails ==
    (pc = "done" /\ call.op = "PolyOverQ_from_str" /\ SingleSpaceAfterCount(call.s)) =>
        IsErrOf(ret,
                IF \E i \in 1 .. Len(call.s) : call.s[i] = NUL
                THEN "InvalidStringToCStringInput"
                ELSE IF \E i \in 1 .. (Len(call.s) - 1) :
                            call.s[i] = " " /\ call.s[i + 1] = " "
                THEN "InvalidStringToPolyInput"
                ELSE "InvalidStringToPolyMissingWhitespace")

C9_Witness ==
    /\ pc = "done"
    /\ call.op = "PolyOverQ_from_str"
    /\ call.s = <<"3", " ", "1", " ", "2", "/", "4", " ", "1">>
    /\ IsErrOf(ret, "InvalidStringToPolyMissingWhitespace")

\* C10 as stated: from_str succeeds only on a text that matches the grammar
\* exactly; a count larger or smaller than the number of coefficients, more
\* than one space between two coefficients, or a coefficient with two
\* divisors gives an error and no polynomial. It does not hold: a tab or a
\* newly started line inside a coefficient is skipped by the engine, and
\* from_str does not look for white space itself.
C10_OnlyGrammarParses ==
    (pc = "done" /\ call.op = "PolyOverQ_from_str" /\ ~MatchesPolyGrammar(call.s)) =>
        IsErr(ret)

\* the count 1, two spaces, a tab and 1: not in the grammar, and parsed as 1
C10_Witness ==
    /\ pc = "done"
    /\ call.op = "PolyOverQ_from_str"
    /\ call.s = <<"1", " ", " ", "\t", "1">>
    /\ ~MatchesPolyGrammar(call.s)
    /\ ret = Ok([coeffs |-> <<1>>, den |-> 1])

\* the integer a text in base ten stands for: an optional '-' and digits
IntOf(t) == IF t[1] = "-" THEN -NatOf(Tail(t)) ELSE NatOf(t)

\* the fraction a coefficient stands for, as it is written
RatOfToken(t) ==
    LET parts == Split(t, "/")
    IN  [n |-> IntOf(parts[1]), d |-> IF Len(parts) = 2 THEN IntOf(parts[2]) ELSE 1]

\* the fractions a text in the grammar lists
RatsOfText(s) ==
    IF s = <<"0">> THEN <<>>
    ELSE [i \in 1 .. (Len(Split(s, " ")) - 2) |-> RatOfToken(Split(s, " ")[i + 2])]

\* the number of coefficients up to the last one that is not zero
DenotedLength(a) ==
    IF \A i \in 1 .. Len(a) : a[i].n = 0 THEN 0
    ELSE CHOOSE i \in 1 .. Len(a) : a[i].n # 0 /\ \A j \in (i + 1) .. Len(a) : a[j].n = 0

\* two texts in the grammar stand for the same polynomial
SamePolynomial(s, t) ==
    LET a == RatsOfText(s)
        b == RatsOfText(t)
    IN  /\ DenotedLength(a) = DenotedLength(b)
        /\ \A i \in 1 .. DenotedLength(a) : a[i].n * b[i].d = b[i].n * a[i].d

Divides(k, n) == n % k = 0

\* trimmed, over a positive denominator, and nothing to cancel
IsCanonicalPoly(p) ==
    /\ Len(p.coeffs) > 0 => p.coeffs[Len(p.coeffs)] # 0
    /\ Len(p.coeffs) = 0 => p.den = 1
    /\ p.den > 0
    /\ \A k \in 2 .. p.den :
          ~(Divides(k, p.den) /\ \A i \in 1 .. Len(p.coeffs) : Divides(k, Abs(p.coeffs[i])))

\* C11: every polynomial PolyOverQ::from_str returns is in canonical form
\* (trailing zero coefficients trimmed, the coefficients in lowest terms over
\* a positive denominator), so two texts that stand for the same polynomial
\* parse to equal values, and so does the same text parsed twice.
C11_CanonicalAfterParse ==
    /\ (pc \in {"done", "back"} /\ call.op \in {"PolyOverQ_from_str", "PolyOverQ_from_str_twice"}
            /\ IsOk(ret)) => IsCanonicalPoly(ret.val)
    /\ (pc = "back" /\ call.op = "PolyOverQ_from_str_twice") =>
          /\ IsOk(ret) /\ IsOk(back)
          /\ IsCanonicalPoly(back.val)
          /\ SamePolynomial(call.s, call.t) => ret = back
          /\ call.s = call.t => ret = back

C11_Witness ==
    /\ pc = "back"
    /\ call.op = "PolyOverQ_from_str_twice"
    /\ call.s = <<"2", " ", " ", "2", "/", "4", " ", "0">>
    /\ call.t = <<"1", " ", " ", "-", "1", "/", "-", "2">>
    /\ ret = Ok([coeffs |-> <<1>>, den |-> 2])
    /\ back = ret

\* an integer in base ten as the engine writes it: no '-' before 0, no 0 first
IsWrittenInteger(t) ==
    /\ WellFormedZ(t, 10)
    /\ \A i \in 1 .. Len(t) : t[i] \in {"-"} \cup {LowerDigits[d] : d \in 1 .. 10}
    /\ t[1] = "0" => Len(t) = 1
    /\ t[1] = "-" => t[2] # "0"

\* the canonical text of a PolyOverZ: "0", or the length, two spaces and as
\* many integers with one space between two, the last of them not zero
CanonicalPolyZText(s) ==
    LET parts == Split(s, " ")
    IN  \/ s = <<"0">>
        \/ /\ Len(parts) >= 3
           /\ IsWrittenInteger(parts[1]) /\ parts[1][1] \notin {"-", "0"}
           /\ parts[2] = <<>>
           /\ NatOf(parts[1]) = Len(parts) - 2
           /\ \A i \in 3 .. Len(parts) : IsWrittenInteger(parts[i])
           /\ parts[Len(parts)] # <<"0">>

\* C12: for every PolyOverZ p, PolyOverZ::from_str(p.to_string()) succeeds and
\* gives a polynomial equal to p, and a canonical text handed to from_str is
\* returned byte for byte by to_string.
C12_TextRoundTrip ==
    /\ (call.op = "PolyOverZ_to_string" /\ pc \in {"done", "back"}) =>
          (IsOk(ret) /\ CanonicalPolyZText(ret.val))
    /\ (call.op = "PolyOverZ_to_string" /\ pc = "back") => back = Ok(call.poly)
    /\ (call.op = "PolyOverZ_from_str" /\ CanonicalPolyZText(call.s)) =>
          /\ pc = "done" => IsOk(ret)
          /\ pc = "back" => back = Ok(call.s)

C12_Witness ==
    /\ pc = "back"
    /\ call.op = "PolyOverZ_from_str"
    /\ call.s = <<"3", " ", " ", "1", " ", "0", " ", "-", "3">>
    /\ ret = Ok(<<1, 0, -3>>)
    /\ back = Ok(call.s)

----------------------------------------------------------------------------
(* Matrices: the text form (MatZq, MatQ) *)

\* str::find(pat): the position of the first pat in s, 0 when there is none
FindSub(s, pat) ==
    LET hits == {i \in 1 .. (Len(s) - Len(pat) + 1) : SubSeq(s, i, i + Len(pat) - 1) = pat}
    IN  IF hits = {} THEN 0 ELSE CHOOSE i \in hits : \A j \in hits : i <= j

\* str::split(pat): the pieces of s between the occurrences of pat
RECURSIVE SplitOn(_, _)
SplitOn(s, pat) ==
    LET Cut(k) == IF k = 0 THEN <<s>>
                  ELSE <<SubSeq(s, 1, k - 1)>>
                         \o SplitOn(SubSeq(s, k + Len(pat), Len(s)), pat)
    IN  Cut(FindSub(s, pat))

\* str::trim(): s without the white space at its two ends
RECURSIVE Trim(_)
Trim(s) ==
    IF Len(s) > 0 /\ IsWhitespace(s[1]) THEN Trim(Tail(s))
    ELSE IF Len(s) > 0 /\ IsWhitespace(s[Len(s)]) THEN Trim(SubSeq(s, 1, Len(s) - 1))
    ELSE s

\* utils::parse::parse_matrix_string: the rows of "[[a, b],[c, d]]", each a
\* list of trimmed entries; the rows are of one length and no entry is empty
parse_matrix_string(s) ==
    LET Entries(raw) ==
          IF \E i \in 1 .. Len(raw) : \E j \in 1 .. Len(raw[i]) :
               Len(raw[i][j]) = 0 \/ Occurs(raw[i][j], "[") \/ Occurs(raw[i][j], "]")
          THEN Err("InvalidMatrix")
          ELSE IF \E i \in 1 .. Len(raw) : Len(raw[i]) # Len(raw[1])
          THEN Err("InvalidMatrix")
          ELSE Ok([i \in 1 .. Len(raw) |-> [j \in 1 .. Len(raw[i]) |-> Trim(raw[i][j])]])
        Rows(rows) == Entries([i \in 1 .. Len(rows) |-> SplitOn(rows[i], <<",">>)])
    IN  IF Len(s) < 5 \/ SubSeq(s, 1, 2) # <<"[", "[">>
           \/ SubSeq(s, Len(s) - 1, Len(s)) # <<"]", "]">>
        THEN Err("InvalidMatrix")
        ELSE Rows(SplitOn(SubSeq(s, 3, Len(s) - 2), <<"]", ",", "[">>))

\* the text of a matrix: the rows in brackets with a comma between two, the
\* entries of a row with sep between two
WriteMatrixText(texts, sep) ==
    <<"[", "[">>
      \o Join([i \in 1 .. Len(texts) |-> Join(texts[i], sep)], <<"]", ",", "[">>)
      \o <<"]", "]">>

----------------------------------------------------------------------------
(* MatZq: text form (src/integer_mod_q/mat_zq/serialize.rs, its tests) *)

\* the representative of v modulo m in [0, m)
Representative(v, m) == ((v % m) + m) % m

\* from_str that stores the entries as they are written
MatZq_from_str_Unreduced(s) ==
    LET Build(q, z) ==
          IF \E i \in 1 .. Len(z) : \E j \in 1 .. Len(z[i]) : IsErr(z[i][j])
          THEN Err("InvalidStringToZInput")
          ELSE Ok([rows |-> [i \in 1 .. Len(z) |-> [j \in 1 .. Len(z[i]) |->
                                z[i][j].val]],
                   mod |-> q])
        Entries(q, rows) ==
          IF IsErr(q) THEN q
          ELSE IF IsErr(rows) THEN rows
          ELSE IF q.val <= 0 THEN Err("InvalidIntToModulus")
          ELSE Build(q.val, [i \in 1 .. Len(rows.val) |->
                               [j \in 1 .. Len(rows.val[i]) |->
                                  from_str_b(rows.val[i][j], 10).ret]])
        Parts(k) ==
          IF k = 0 THEN Err("InvalidStringToMatZqInput")
          ELSE Entries(from_str_b(Trim(SubSeq(s, k + 3, Len(s))), 10).ret,
                       parse_matrix_string(Trim(SubSeq(s, 1, k - 1))))
    IN  Parts(FindSub(s, <<"m", "o", "d">>))

\* MatZq::from_str(s): "[[a, b],[c, d]] mod m" with a positive modulus m, the
\* entries reduced to their representatives
MatZq_from_str(s) ==
    LET Build(q, z) ==
          IF \E i \in 1 .. Len(z) : \E j \in 1 .. Len(z[i]) : IsErr(z[i][j])
          THEN Err("InvalidStringToZInput")
          ELSE Ok([rows |-> [i \in 1 .. Len(z) |-> [j \in 1 .. Len(z[i]) |->
                                Representative(z[i][j].val, q)]],
                   mod |-> q])
        Entries(q, rows) ==
          IF IsErr(q) THEN q
          ELSE IF IsErr(rows) THEN rows
          ELSE IF q.val <= 0 THEN Err("InvalidIntToModulus")
          ELSE Build(q.val, [i \in 1 .. Len(rows.val) |->
                               [j \in 1 .. Len(rows.val[i]) |->
                                  from_str_b(rows.val[i][j], 10).ret]])
        Parts(k) ==
          IF k = 0 THEN Err("InvalidStringToMatZqInput")
          ELSE Entries(from_str_b(Trim(SubSeq(s, k + 3, Len(s))), 10).ret,
                       parse_matrix_string(Trim(SubSeq(s, 1, k - 1))))
    IN  Parts(FindSub(s, <<"m", "o", "d">>))

\* impl Display for MatZq: the rows with ", " between two entries, " mod "
\* and the modulus, all in base ten
MatZq_to_string(mat) ==
    WriteMatrixText([i \in 1 .. Len(mat.rows) |-> [j \in 1 .. Len(mat.rows[i]) |->
                        fmpz_get_str(mat.rows[i][j], 10)]],
                    <<",", " ">>)
      \o <<" ", "m", "o", "d", " ">> \o fmpz_get_str(mat.mod, 10)

----------------------------------------------------------------------------
(* MatQ: text form (src/rational/mat_q.rs, src/rational/mat_q/serialize.rs) *)

\* fmpq_canonicalise: lowest terms over a positive denominator
fmpq_canonicalise(q) ==
    [num |-> (Abs(q.num) \div GCD(q.num, q.den))
               * (IF (q.num < 0) # (q.den < 0) THEN -1 ELSE 1),
     den |-> Abs(q.den) \div GCD(q.num, q.den)]

\* Q::from_str(s): "num" or "num/den" in base ten, den not zero, reduced
Q_from_str(s) ==
    IF ContainsWhitespace(s) THEN Err("InvalidStringToQInput")
    ELSE IF ContainsNul(s) THEN Err("InvalidStringToCStringInput")
    ELSE LET Build(r) ==
               IF r.rc # 0 THEN Err("InvalidStringToQInput")
               ELSE IF r.den = 0 THEN Err("DivisionByZeroError")
               ELSE Ok(fmpq_canonicalise([num |-> r.num, den |-> r.den]))
         IN  Build(mpq_set_str(s, 10))

\* Display for Q writing the denominator of an integer as well
Q_to_string_WithDenominator(q) ==
    fmpz_get_str(q.num, 10) \o <<"/">> \o fmpz_get_str(q.den, 10)

\* impl Display for Q: "num/den", "num" alone over the denominator one
Q_to_string(q) ==
    IF q.den = 1 THEN fmpz_get_str(q.num, 10)
    ELSE fmpz_get_str(q.num, 10) \o <<"/">> \o fmpz_get_str(q.den, 10)

\* MatQ::from_str(s): "[[a, b],[c, d]]", the entries read by Q::from_str
MatQ_from_str(s) ==
    LET Build(q) ==
          IF \E i \in 1 .. Len(q) : \E j \in 1 .. Len(q[i]) : IsErr(q[i][j])
          THEN Err("InvalidStringToQInput")
          ELSE Ok([rows |-> [i \in 1 .. Len(q) |-> [j \in 1 .. Len(q[i]) |->
                                q[i][j].val]]])
        Entries(rows) ==
          IF IsErr(rows) THEN rows
          ELSE Build([i \in 1 .. Len(rows.val) |-> [j \in 1 .. Len(rows.val[i]) |->
                         Q_from_str(rows.val[i][j])]])
    IN  Entries(parse_matrix_string(s))

\* impl Display for MatQ: the rows with ", " between two entries
MatQ_to_string(mat) ==
    WriteMatrixText([i \in 1 .. Len(mat.rows) |-> [j \in 1 .. Len(mat.rows[i]) |->
                        Q_to_string(mat.rows[i][j])]],
                    <<",", " ">>)

\* a clone that copies the struct and with it the pointer to the entries
MatQ_clone_Shallow(heap, a) == [heap |-> heap, matrix |-> a]

\* impl Clone for MatQ: fmpq_mat_init makes new storage and fmpq_mat_set
\* copies the entries into it; heap[a] is the storage at address a
MatQ_clone(heap, a) == [heap |-> Append(heap, heap[a]), matrix |-> Len(heap) + 1]

\* impl SetEntry<Q> for MatQ: OutOfBounds for an index that is negative or
\* not in the matrix, else the entry in the storage of the matrix is set
MatQ_set_entry(heap, a, row, column, value) ==
    IF \/ IsErr(evaluate_index(row))
       \/ IsErr(evaluate_index(column))
       \/ row >= Len(heap[a])
       \/ column >= Len(heap[a][1])
    THEN [ret |-> Err("OutOfBounds"), heap |-> heap]
    ELSE [ret |-> Ok(<<>>),
          heap |-> [heap EXCEPT ![a][row + 1][column + 1] = value]]

----------------------------------------------------------------------------
(* Structured serialization (serialize!, deserialize! and serde_json) *)

\* the field name handed to serialize! and deserialize!
FieldMatrix == <<"m", "a", "t", "r", "i", "x">>

\* serialize!(field, type): a struct of one field that holds the text
serialize(field, text) == <<[key |-> field, val |-> text]>>

\* serde_json::to_string of a struct of text fields
serde_json_to_string(o) ==
    <<"{">>
      \o Join([i \in 1 .. Len(o) |->
                  <<"\"">> \o o[i].key \o <<"\"", ":", "\"">> \o o[i].val \o <<"\"">>],
              <<",">>)
      \o <<"}">>

\* deserialize!'s visit_map: the value of the one field; an error on any
\* other key, on a second occurrence of the field and when it is missing
RECURSIVE visit_map(_, _, _)
visit_map(field, o, value) ==
    IF Len(o) = 0 THEN (IF value = None THEN Err("missing_field") ELSE value)
    ELSE IF Head(o).key # field THEN Err("unknown_field")
    ELSE IF value # None THEN Err("duplicate_field")
    ELSE visit_map(field, Tail(o), Ok(Head(o).val))

\* deserialize!(field, identifier, type): the field's text read by
\* type::from_str
deserialize(field, o, type) ==
    LET Value(value) == IF IsErr(value) THEN Err("invalid_value") ELSE value
        Text(text) ==
          IF IsErr(text) THEN text
          ELSE Value(IF type = "MatZq" THEN MatZq_from_str(text.val)
                     ELSE MatQ_from_str(text.val))
    IN  Text(visit_map(field, o, None))

\* serialize! handed the identifier of deserialize! as the name of the field
MatZq_serialize_FieldIdentifier(mat) ==
    serialize(<<"M", "a", "t", "r", "i", "x">>, MatZq_to_string(mat))

\* serialize!("matrix", MatZq)
MatZq_serialize(mat) == serialize(FieldMatrix, MatZq_to_string(mat))

\* deserialize! instantiated with MatQ in the file of MatZq
MatZq_deserialize_AsMatQ(o) == deserialize(FieldMatrix, o, "MatQ")

\* a deserializer that unwraps what from_str returned
MatZq_deserialize_Unwrap(o) ==
    LET Value(value) == IF IsErr(value) THEN [tag |-> "Panic"] ELSE value
        Text(text) == IF IsErr(text) THEN text ELSE Value(MatZq_from_str(text.val))
    IN  Text(visit_map(FieldMatrix, o, None))

\* deserialize!("matrix", Matrix, MatZq)
MatZq_deserialize(o) == deserialize(FieldMatrix, o, "MatZq")

\* serialize!("matrix", MatQ)
MatQ_serialize(mat) == serialize(FieldMatrix, MatQ_to_string(mat))

\* a deserializer that skips the fields it does not know and keeps the last
\* occurrence of the field
MatQ_deserialize_Lenient(o) ==
    LET Value(value) == IF IsErr(value) THEN Err("invalid_value") ELSE value
        Fields(fields) ==
          IF Len(fields) = 0 THEN Err("missing_field")
          ELSE Value(MatQ_from_str(fields[Len(fields)].val))
    IN  Fields(SelectSeq(o, LAMBDA f : f.key = FieldMatrix))

\* deserialize!("matrix", Matrix, MatQ)
MatQ_deserialize(o) == deserialize(FieldMatrix, o, "MatQ")

----------------------------------------------------------------------------
(* Matrices: the calls, checked under SpecMat *)

\* the matrices of at most MaxCells entries over a set
Matrices(entries) ==
    UNION {[1 .. rc[1] -> [1 .. rc[2] -> entries]] :
              rc \in {x \in (1 .. MaxCells) \X (1 .. MaxCells) : x[1] * x[2] <= MaxCells}}

\* the text of integer rows and a modulus, sep between two entries of a row
MatZqText(rows, m, sep) ==
    WriteMatrixText([i \in 1 .. Len(rows) |-> [j \in 1 .. Len(rows[i]) |->
                        fmpz_get_str(rows[i][j], 10)]], sep)
      \o <<" ", "m", "o", "d", " ">> \o fmpz_get_str(m, 10)

\* the text "[[-17,-42,1],[-13,-5,-42]] mod 57"
ScenarioText ==
    <<"[", "[", "-", "1", "7", ",", "-", "4", "2", ",", "1", "]", ",", "[",
      "-", "1", "3", ",", "-", "5", ",", "-", "4", "2", "]", "]", " ", "m",
      "o", "d", " ", "5", "7">>

\* MatZq::from_str(s) followed by serde_json::to_string: entries in range,
\* negative and beyond the machine word, written with "," and with ", "
\* between two of them; and the text of the scenario
MatZqParseCalls ==
    {[type |-> "MatZq", op |-> "from_str", rows |-> r, m |-> m, s |-> MatZqText(r, m, sep)] :
        r \in Matrices({1, -17, U64_MAX + 2}), m \in {3, 57},
        sep \in {<<",">>, <<",", " ">>}}
      \cup {[type |-> "MatZq", op |-> "from_str",
             rows |-> <<<<-17, -42, 1>>, <<-13, -5, -42>>>>, m |-> 57, s |-> t] :
                t \in {ScenarioText,
                       MatZqText(<<<<-17, -42, 1>>, <<-13, -5, -42>>>>, 57, <<",", " ">>)}}

\* MatQ::from_str(s) followed by serde_json::to_string: the entries zero, a
\* fraction not in lowest terms and an integer
MatQParseCalls ==
    {[type |-> "MatQ", op |-> "from_str", rows |-> r, s |-> WriteMatrixText(r, sep)] :
        r \in Matrices({<<"0", "/", "1">>, <<"-", "2", "/", "4">>, <<"3">>})
                \cup {m \in Matrices({<<"-", "1", "/", "-", "5">>, <<"1", "/", "5">>,
                                      <<"-", "1">>, <<"0">>}) :
                         Len(m) * Len(m[1]) <= 2}
                \cup {<<<<<<"-", "1", "/", "-", "5">>>>, <<<<"-", "1">>>>, <<<<"0">>>>>>,
                      <<<<<<"1", "/", "2">>, <<"0", "/", "1">>>>,
                        <<<<"0">>, <<"1">>>>>>},
        sep \in {<<",">>, <<",", " ">>}}

\* the matrices that are serialized and deserialized again
MatValueCalls ==
    {[type |-> "MatZq", op |-> "serialize", mat |-> [rows |-> r, mod |-> m]] :
        r \in Matrices({0, 2}), m \in {3, 57}}
      \cup {[type |-> "MatQ", op |-> "serialize", mat |-> [rows |-> r]] :
               r \in Matrices({[num |-> 0, den |-> 1], [num |-> -1, den |-> 2]})}

\* a matrix is cloned and an entry of the clone or of the matrix itself is set
MatCloneCalls ==
    [type : {"MatQ"}, op : {"clone"},
     mat : [rows : Matrices({[num |-> 1, den |-> 2], [num |-> 0, den |-> 1]})],
     target : {"clone", "id_mat"}, row : -1 .. 1, column : -1 .. 1,
     value : {[num |-> 2, den |-> 1], [num |-> -1, den |-> 3]}]

\* the texts in the fields of the objects handed to the deserializers: one in
\* the grammar; no modulus, a modulus of zero, a negative modulus, rows of two
\* lengths, braces around the text (as the tests write it)
ZqPayloads ==
    {<<"[", "[", "1", ",", " ", "-", "1", "7", "]", "]", " ", "m", "o",
       "d", " ", "3">>,
     <<"[", "[", "1", ",", " ", "-", "1", "7", "]", "]">>,
     <<"[", "[", "1", ",", " ", "-", "1", "7", "]", "]", " ", "m", "o",
       "d", " ", "0">>,
     <<"[", "[", "1", ",", " ", "-", "1", "7", "]", "]", " ", "m", "o",
       "d", " ", "-", "5", "7">>,
     <<"[", "[", "1", "]", ",", "[", "1", ",", " ", "2", "]", "]", " ",
       "m", "o", "d", " ", "3">>,
     <<"{", "[", "[", "2", ",", " ", "1", "7", ",", " ", "4", "2", "]",
       "]", " ", "m", "o", "d", " ", "5", "7", "}">>}

\* one in the grammar; two divisors, rows of two lengths, braces
QPayloads ==
    {<<"[", "[", "1", "/", "2", ",", " ", "0", "]", "]">>,
     <<"[", "[", "1", "/", "2", "/", "3", "]", "]">>,
     <<"[", "[", "1", "]", ",", "[", "1", ",", " ", "2", "]", "]">>,
     <<"{", "[", "[", "1", ",", " ", "1", "]", "]", "}">>}

\* the objects of at most MaxFields fields, each "matrix" or "tree"
Objects(payloads) ==
    UNION {[1 .. k -> [key : {FieldMatrix, <<"t", "r", "e", "e">>}, val : payloads]] : k \in 0 .. MaxFields}

MatDeserializeCalls ==
    {[type |-> "MatZq", op |-> "deserialize", o |-> o] : o \in Objects(ZqPayloads)}
      \cup {[type |-> "MatQ", op |-> "deserialize", o |-> o] : o \in Objects(QPayloads)}
      \cup {[type |-> c.type, op |-> "deserialize",
             o |-> <<[key |-> FieldMatrix, val |-> c.s]>>] :
               c \in MatZqParseCalls \cup MatQParseCalls}

InitMat ==
    /\ call \in MatZqParseCalls \cup MatQParseCalls \cup MatValueCalls
                  \cup MatDeserializeCalls \cup MatCloneCalls
    /\ obj = CASE call.op = "serialize" -> call.mat
               [] call.op = "clone" -> [heap |-> <<call.mat.rows>>, id_mat |-> 1]
               [] OTHER -> None
    /\ pc = "call"
    /\ ret = None
    /\ eng = <<>>
    /\ back = None

\* MatZq::from_str(call.s) or MatQ::from_str(call.s); the matrix is kept in obj
MatFromStr ==
    /\ pc = "call"
    /\ call.op = "from_str"
    /\ ret' = IF call.type = "MatZq" THEN MatZq_from_str(call.s) ELSE MatQ_from_str(call.s)
    /\ obj' = IF IsOk(ret') THEN ret'.val ELSE obj
    /\ pc' = "done"
    /\ UNCHANGED <<call, eng, back>>

\* serde_json::to_string(&obj), obj being the matrix from_str returned
MatToJson ==
    /\ pc = "done"
    /\ call.op = "from_str"
    /\ IsOk(ret)
    /\ back' = Ok(serde_json_to_string(IF call.type = "MatZq" THEN MatZq_serialize(obj)
                                       ELSE MatQ_serialize(obj)))
    /\ pc' = "back"
    /\ UNCHANGED <<call, obj, ret, eng>>

\* obj.serialize(serializer): the object handed to the serializer
MatSerialize ==
    /\ pc = "call"
    /\ call.op = "serialize"
    /\ ret' = Ok(IF call.type = "MatZq" THEN MatZq_serialize(obj) ELSE MatQ_serialize(obj))
    /\ pc' = "done"
    /\ UNCHANGED <<call, obj, eng, back>>

\* the object serialize produced is handed to the deserializer of the type
MatDeserializeBack ==
    /\ pc = "done"
    /\ call.op = "serialize"
    /\ back' = IF call.type = "MatZq" THEN MatZq_deserialize(ret.val)
               ELSE MatQ_deserialize(ret.val)
    /\ pc' = "back"
    /\ UNCHANGED <<call, obj, ret, eng>>

\* MatZq::deserialize or MatQ::deserialize on the object call.o
MatDeserialize ==
    /\ pc = "call"
    /\ call.op = "deserialize"
    /\ ret' = IF call.type = "MatZq" THEN MatZq_deserialize(call.o)
              ELSE MatQ_deserialize(call.o)
    /\ pc' = "done"
    /\ UNCHANGED <<call, obj, eng, back>>

\* let mut clone = id_mat.clone()
MatClone ==
    /\ pc = "call"
    /\ call.op = "clone"
    /\ obj' = [heap |-> MatQ_clone(obj.heap, obj.id_mat).heap,
               id_mat |-> obj.id_mat,
               clone |-> MatQ_clone(obj.heap, obj.id_mat).matrix]
    /\ pc' = "done"
    /\ UNCHANGED <<call, ret, eng, back>>

\* clone.set_entry(row, column, value) or id_mat.set_entry(row, column, value),
\* then to_string of the other of the two
MatSetEntry ==
    /\ pc = "done"
    /\ call.op = "clone"
    /\ LET r == MatQ_set_entry(obj.heap, obj[call.target],
                               call.row, call.column, call.value)
           other == IF call.target = "clone" THEN obj.id_mat ELSE obj.clone
       IN  /\ ret' = r.ret
           /\ obj' = [obj EXCEPT !.heap = r.heap]
           /\ back' = MatQ_to_string([rows |-> r.heap[other]])
    /\ pc' = "back"
    /\ UNCHANGED <<call, eng>>

NextMat ==
    \/ MatFromStr
    \/ MatToJson
    \/ MatSerialize
    \/ MatDeserializeBack
    \/ MatDeserialize
    \/ MatClone
    \/ MatSetEntry

SpecMat == InitMat /\ [][NextMat]_vars

----------------------------------------------------------------------------
(* Claims about the serialization of matrices, checked under SpecMat *)

\* the representative of v modulo m: the r in [0, m) with m dividing v - r
RepOf(v, m) == CHOOSE r \in 0 .. (m - 1) : (v - r) % m = 0

\* the bytes of an object with the one field "matrix" holding the text
JsonOfMatrix(text) ==
    <<"{", "\"", "m", "a", "t", "r", "i", "x", "\"", ":", "\"">> \o text \o <<"\"", "}">>

\* C13: for every MatZq parsed from a text with a modulus m > 0, each entry of
\* the serialized text is the representative r, 0 <= r < m, congruent to the
\* entry written in the text, also for a negative entry and for one beyond
\* the machine word; an entry already in range is written unchanged.
C13_ReducedEntriesInText ==
    (call.type = "MatZq" /\ call.op = "from_str" /\ call.m > 0 /\ pc \in {"done", "back"}) =>
        /\ IsOk(ret)
        /\ \A i \in 1 .. Len(call.rows) : \A j \in 1 .. Len(call.rows[i]) :
              /\ obj.rows[i][j] >= 0 /\ obj.rows[i][j] < call.m
              /\ (call.rows[i][j] - obj.rows[i][j]) % call.m = 0
        /\ pc = "back" =>
              back = Ok(JsonOfMatrix(
                        MatZqText([i \in 1 .. Len(call.rows) |->
                                      [j \in 1 .. Len(call.rows[i]) |->
                                          RepOf(call.rows[i][j], call.m)]],
                                  call.m, <<",", " ">>)))

C13_Witness ==
    /\ pc = "back"
    /\ call.type = "MatZq" /\ call.op = "from_str"
    /\ call.rows = <<<<-17, 1>>, <<U64_MAX + 2, -17>>>>
    /\ call.m = 3
    /\ obj.rows = <<<<1, 1>>, <<(U64_MAX + 2) % 3, 1>>>>

\* C14 as stated: parsing "[[-17,-42,1],[-13,-5,-42]] mod 57" and serializing
\* the result gives the bytes {"matrix":"[[40,15,1],[44,52,15]] mod 57"}.
C14_Original ==
    (pc = "back" /\ call.type = "MatZq" /\ call.op = "from_str" /\ call.s = ScenarioText) =>
        back = Ok(<<"{", "\"", "m", "a", "t", "r", "i", "x", "\"", ":", "\"", "[", "[",
                    "4", "0", ",", "1", "5", ",", "1", "]", ",", "[", "4", "4", ",", "5",
                    "2", ",", "1", "5", "]", "]", " ", "m", "o", "d", " ", "5", "7",
                    "\"", "}">>)

\* C14 as amended: parsing "[[-17,-42,1],[-13,-5,-42]] mod 57" and serializing
\* the result gives the bytes {"matrix":"[[40, 15, 1],[44, 52, 15]] mod 57"},
\* with a space after each comma between two entries of a row.
C14_ScenarioBytes ==
    (pc = "back" /\ call.type = "MatZq" /\ call.op = "from_str" /\ call.s = ScenarioText) =>
        back = Ok(<<"{", "\"", "m", "a", "t", "r", "i", "x", "\"", ":", "\"", "[", "[",
                    "4", "0", ",", " ", "1", "5", ",", " ", "1", "]", ",", "[", "4", "4",
                    ",", " ", "5", "2", ",", " ", "1", "5", "]", "]", " ", "m", "o", "d",
                    " ", "5", "7", "\"", "}">>)

C14_Witness ==
    /\ pc = "back"
    /\ call.type = "MatZq" /\ call.op = "from_str"
    /\ call.s = ScenarioText
    /\ obj = [rows |-> <<<<40, 15, 1>>, <<44, 52, 15>>>>, mod |-> 57]

\* the number of fields of an object that are named "matrix"
MatrixFields(o) == Cardinality({i \in 1 .. Len(o) : o[i].key = <<"m", "a", "t", "r", "i", "x">>})

\* C15: for MatZq and MatQ, serialize produces an object whose only field is
\* "matrix" and holds the text of the matrix; deserializing the object with
\* the one field "matrix" holding a text that from_str accepts gives the
\* matrix from_str gives; and deserialize(serialize(m)) = m for every matrix.
C15_SerializeDeserialize ==
    /\ (call.op = "serialize" /\ pc \in {"done", "back"}) =>
          /\ IsOk(ret)
          /\ Len(ret.val) = 1
          /\ ret.val[1].key = <<"m", "a", "t", "r", "i", "x">>
          /\ ret.val[1].val = IF call.type = "MatZq" THEN MatZq_to_string(call.mat)
                              ELSE MatQ_to_string(call.mat)
    /\ (call.op = "serialize" /\ pc = "back") => back = Ok(call.mat)
    /\ (call.op = "deserialize" /\ pc = "done" /\ Len(call.o) = 1 /\ MatrixFields(call.o) = 1) =>
          LET parsed == IF call.type = "MatZq" THEN MatZq_from_str(call.o[1].val)
                        ELSE MatQ_from_str(call.o[1].val)
          IN  IsOk(parsed) => ret = parsed

C15_Witness ==
    /\ pc = "back"
    /\ call.op = "serialize" /\ call.type = "MatZq"
    /\ call.mat = [rows |-> <<<<0, 2>>, <<2, 0>>>>, mod |-> 57]
    /\ ret.val[1].val = MatZqText(<<<<0, 2>>, <<2, 0>>>>, 57, <<",", " ">>)
    /\ back = Ok(call.mat)

\* C16: the deserializers of MatZq and MatQ return an error, and no matrix,
\* for every object in which the field "matrix" is missing, in which a field
\* other than "matrix" is present, or in which "matrix" occurs more than once.
C16_BadObjectRejected ==
    (call.op = "deserialize" /\ pc = "done"
       /\ (MatrixFields(call.o) # 1 \/ Len(call.o) # MatrixFields(call.o))) =>
        /\ IsErr(ret)
        /\ obj = None

C16_Witness ==
    /\ pc = "done"
    /\ call.op = "deserialize" /\ call.type = "MatQ"
    /\ Len(call.o) = 2
    /\ MatrixFields(call.o) = 2
    /\ IsOk(MatQ_from_str(call.o[1].val)) /\ IsOk(MatQ_from_str(call.o[2].val))
    /\ IsErr(ret)

\* the text has no " mod " followed by a modulus
NoModSuffix(s) == FindSub(s, <<" ", "m", "o", "d", " ">>) = 0

\* the modulus written after " mod " is zero or negative
NonPositiveModulus(s) ==
    LET k == FindSub(s, <<" ", "m", "o", "d", " ">>)
    IN  k # 0 /\ (CharAt(s, k + 5) = "-" \/ SubSeq(s, k + 5, Len(s)) = <<"0">>)

\* the part before " mod " is not a list of rows of one length in brackets
NotAMatrix(s) ==
    LET k == FindSub(s, <<" ", "m", "o", "d", " ">>)
        m == SubSeq(s, 1, k - 1)
        rows == SplitOn(m, <<"]", ",", "[">>)
    IN  k # 0 /\ (\/ CharAt(m, 1) # "["
                  \/ \E i \in 1 .. Len(rows) :
                        Len(SplitOn(rows[i], <<",">>)) # Len(SplitOn(rows[1], <<",">>)))

\* C17: deserializing a MatZq whose "matrix" text fails the grammar of MatZq,
\* whose modulus is negative or zero, or which has no " mod <m>" at its end
\* returns a deserialization error; it does not panic and gives no matrix.
C17_BadPayloadIsError ==
    (call.op = "deserialize" /\ call.type = "MatZq" /\ pc = "done"
       /\ Len(call.o) = 1 /\ MatrixFields(call.o) = 1
       /\ (NoModSuffix(call.o[1].val) \/ NonPositiveModulus(call.o[1].val)
             \/ NotAMatrix(call.o[1].val))) =>
        /\ ret = Err("invalid_value")
        /\ obj = None

C17_Witness ==
    /\ pc = "done"
    /\ call.op = "deserialize" /\ call.type = "MatZq"
    /\ Len(call.o) = 1 /\ MatrixFields(call.o) = 1
    /\ NonPositiveModulus(call.o[1].val)
    /\ CharAt(call.o[1].val, Len(call.o[1].val)) = "7"
    /\ ret = Err("invalid_value")

----------------------------------------------------------------------------
(* Arithmetic between types: the impls the macros generate
   (src/macros/arithmetics.rs) *)

\* an operand of an operator: its type, whether it is handed over owned or
\* borrowed, and its value
Operand(type, own, val) == [type |-> type, own |-> own, val |-> val]

\* impl $trait<$other_type> for $type: fn(self, other) is
\* (&self).f(&other)
arithmetic_trait_borrowed_to_owned(type, other, out) ==
    {[self |-> <<type, "owned">>, other |-> <<other, "owned">>, out |-> out,
      body |-> "(&self).f(&other)"]}

\* the macro with the body of its second impl written in the first as well:
\* a borrowed self is borrowed again and other is handed on as it is
arithmetic_trait_mixed_borrowed_owned_SameBody(type, other, out) ==
    {[self |-> <<type, "ref">>, other |-> <<other, "owned">>, out |-> out,
      body |-> "(&self).f(other)"],
     [self |-> <<type, "owned">>, other |-> <<other, "ref">>, out |-> out,
      body |-> "(&self).f(other)"]}

\* impl $trait<$other_type> for &$type: fn(self, other) is self.f(&other);
\* impl $trait<&$other_type> for $type: fn(self, other) is (&self).f(other)
arithmetic_trait_mixed_borrowed_owned(type, other, out) ==
    {[self |-> <<type, "ref">>, other |-> <<other, "owned">>, out |-> out,
      body |-> "self.f(&other)"],
     [self |-> <<type, "owned">>, other |-> <<other, "ref">>, out |-> out,
      body |-> "(&self).f(other)"]}

\* the macro with the two helper macros called a second time for the same
\* order of types, so that no owned form has the other type on the left
arithmetic_between_types_SameOrderTwice(out, other) ==
    {[self |-> <<out, "ref">>, other |-> <<other, "ref">>, out |-> out,
      body |-> "self.f(out::from(*other))"]}
      \cup arithmetic_trait_borrowed_to_owned(out, other, out)
      \cup arithmetic_trait_mixed_borrowed_owned(out, other, out)
      \cup {[self |-> <<other, "ref">>, other |-> <<out, "ref">>, out |-> out,
             body |-> "other.f(out::from(*self))"]}
      \cup arithmetic_trait_borrowed_to_owned(out, other, out)
      \cup arithmetic_trait_mixed_borrowed_owned(out, other, out)

\* arithmetic_between_types!(trait, f, out, other): the eight impls
arithmetic_between_types(out, other) ==
    {[self |-> <<out, "ref">>, other |-> <<other, "ref">>, out |-> out,
      body |-> "self.f(out::from(*other))"]}
      \cup arithmetic_trait_borrowed_to_owned(out, other, out)
      \cup arithmetic_trait_mixed_borrowed_owned(out, other, out)
      \cup {[self |-> <<other, "ref">>, other |-> <<out, "ref">>, out |-> out,
             body |-> "other.f(out::from(*self))"]}
      \cup arithmetic_trait_borrowed_to_owned(other, out, out)
      \cup arithmetic_trait_mixed_borrowed_owned(other, out, out)

\* the operator of the library type on two borrowed values
TraitFunction(trait, a, b) ==
    CASE trait = "add" -> a + b
      [] trait = "sub" -> a - b
      [] trait = "mul" -> a * b

\* the impls of an operator for Z and Z, and for Z and i64
Impls ==
    {[self |-> <<"Z", "ref">>, other |-> <<"Z", "ref">>, out |-> "Z",
      body |-> "base"]}
      \cup arithmetic_trait_borrowed_to_owned("Z", "Z", "Z")
      \cup arithmetic_trait_mixed_borrowed_owned("Z", "Z", "Z")
      \cup arithmetic_between_types("Z", "i64")

\* what a value that does not compile stands for
NoImpl == [type |-> "NoImpl"]

\* l.f(r): the impl for the two operands is looked up and its body is run;
\* stack holds the calls that are running, and a call that is already running
\* with the same operands never returns (the stack overflows). The outcome is
\* the value returned and the calls made, in order.
RECURSIVE CallOperator(_, _, _, _)
CallOperator(trait, l, r, stack) ==
    LET found == {i \in Impls : /\ i.self = <<l.type, l.own>>
                                /\ i.other = <<r.type, r.own>>}
        calls == Append(stack, <<l, r>>)
    IN  IF found = {} THEN Outcome(NoImpl, stack)
        ELSE IF \E k \in 1 .. Len(stack) : stack[k] = <<l, r>>
        THEN Outcome([type |-> "StackOverflow"], calls)
        ELSE LET impl == CHOOSE i \in found : TRUE
                 Returned(inner) ==
                   IF inner.ret.type \in {impl.out, "StackOverflow"} THEN inner
                   ELSE Outcome(NoImpl, inner.eng)
             IN  Returned(
                   CASE impl.body = "base" ->
                          Outcome([type |-> impl.out,
                                   val |-> TraitFunction(trait, l.val, r.val)],
                                  calls)
                     [] impl.body = "(&self).f(&other)" ->
                          CallOperator(trait, Operand(l.type, "ref", l.val),
                                       Operand(r.type, "ref", r.val), calls)
                     [] impl.body = "self.f(&other)" ->
                          CallOperator(trait, l, Operand(r.type, "ref", r.val),
                                       calls)
                     [] impl.body = "(&self).f(other)" ->
                          CallOperator(trait, Operand(l.type, "ref", l.val), r,
                                       calls)
                     [] impl.body = "self.f(out::from(*other))" ->
                          CallOperator(trait, l,
                                       Operand(impl.out, "owned", from_i64(r.val)),
                                       calls)
                     [] impl.body = "other.f(out::from(*self))" ->
                          CallOperator(trait, r,
                                       Operand(impl.out, "owned", from_i64(l.val)),
                                       calls))

----------------------------------------------------------------------------
(* Arithmetic between types: the calls, checked under SpecArith *)

\* left op right for Add, Sub and Mul: call.first is the type on the left and
\* call.second the type on the right, Z and i64 in one of the eight forms or
\* Z and Z in one of the four; the values of the library type go beyond the
\* word on both sides
ArithCalls ==
    {c \in [op : {"operator"}, trait : {"add", "sub", "mul"},
            first : {"Z", "i64"}, second : {"Z", "i64"},
            left : {"owned", "ref"}, right : {"owned", "ref"},
            t : {I64_MIN - 1, -2, 0, 3, I64_MAX + 1}, u : I64] :
       c.first = "Z" \/ c.second = "Z"}

\* the two operands of a call in the order they are written in, handed over
\* as left and right say: t and u, u and t, or t and Z::from(u)
Operands(c, left, right) ==
    IF c.first = "i64"
    THEN <<Operand("i64", left, c.u), Operand("Z", right, c.t)>>
    ELSE IF c.second = "i64"
    THEN <<Operand("Z", left, c.t), Operand("i64", right, c.u)>>
    ELSE <<Operand("Z", left, c.t), Operand("Z", right, from_i64(c.u))>>

InitArith ==
    /\ call \in ArithCalls
    /\ obj = None
    /\ pc = "call"
    /\ ret = None
    /\ eng = <<>>
    /\ back = None

\* left op right in the form of the call
Operator ==
    /\ pc = "call"
    /\ call.op = "operator"
    /\ LET Run(operands) ==
             /\ ret' = CallOperator(call.trait, operands[1], operands[2], <<>>).ret
             /\ eng' = CallOperator(call.trait, operands[1], operands[2], <<>>).eng
       IN  Run(Operands(call, call.left, call.right))
    /\ pc' = "done"
    /\ UNCHANGED <<call, obj, back>>

\* the same operands in the same order, both borrowed
OperatorBorrowed ==
    /\ pc = "done"
    /\ call.op = "operator"
    /\ LET Run(r) == /\ back' = r.ret
                     /\ eng' = eng \o r.eng
           Call(operands) == Run(CallOperator(call.trait, operands[1], operands[2], <<>>))
       IN  Call(Operands(call, "ref", "ref"))
    /\ pc' = "back"
    /\ UNCHANGED <<call, obj, ret>>

NextArith == Operator \/ OperatorBorrowed

SpecArith == InitArith /\ [][NextArith]_vars

----------------------------------------------------------------------------
(* Claims about the arithmetic between types *)

\* C18: each of the eight forms of an operator between the library type and
\* another type has an impl, returns a value of the library type, and returns
\* what the form with both operands borrowed returns for the same operands
\* in the same order.
C18_EightFormsAgree ==
    /\ pc \in {"done", "back"} => ret.type = "Z"
    /\ pc = "back" => back.type = "Z" /\ ret = back

\* 3 - 2 written with the word on the left and both operands owned
C18_Witness ==
    /\ pc = "back"
    /\ call.trait = "sub"
    /\ call.first = "i64"
    /\ call.left = "owned"
    /\ call.right = "owned"
    /\ call.u = 3
    /\ call.t = -2
    /\ ret = back
    /\ ret.type = "Z"

----------------------------------------------------------------------------
(* ModulusPolynomialRingZq: the context shared by reference count
   (src/integer_mod_q/modulus_polynomial_ring_zq.rs) *)

\* ModulusPolynomialRingZq::try_from: fq_ctx_init fills the context, and the
\* first value holds it in a new Rc
ModulusPolynomialRingZq_try_from(q) ==
    [obj |-> [live |-> {1}, made |-> 1, strong |-> 1,
              modulus |-> [q |-> q, storage |-> "initialised"]],
     eng |-> <<"fq_ctx_init">>]

\* Clone: Rc::clone of the field, one more value holds the same context
ModulusPolynomialRingZq_clone(o) ==
    [o EXCEPT !.live = @ \cup {o.made + 1}, !.made = @ + 1, !.strong = @ + 1]

\* a drop that clears the context whatever the count is
ModulusPolynomialRingZq_drop_Always(o, r) ==
    [obj |-> [o EXCEPT !.live = @ \ {r}, !.strong = @ - 1,
                       !.modulus.storage = "cleared"],
     eng |-> <<"fq_ctx_clear">>]

\* Drop: the value that holds the context alone clears it with fq_ctx_clear;
\* then the field is dropped and the count goes down by one
ModulusPolynomialRingZq_drop(o, r) ==
    IF o.strong <= 1
    THEN [obj |-> [o EXCEPT !.live = @ \ {r}, !.strong = @ - 1,
                            !.modulus.storage = "cleared"],
          eng |-> <<"fq_ctx_clear">>]
    ELSE [obj |-> [o EXCEPT !.live = @ \ {r}, !.strong = @ - 1],
          eng |-> <<>>]

\* get_fq_ctx_struct: self.modulus.as_ref(), the context the value holds
get_fq_ctx_struct(o) == o.modulus

\* a context is about to be made for a prime; its values are then cloned,
\* read and dropped
InitCtx ==
    /\ call \in [op : {"try_from"}, q : {3, 5, 17}]
    /\ obj = None
    /\ pc = "call"
    /\ ret = None
    /\ eng = <<>>
    /\ back = None

\* ModulusPolynomialRingZq::try_from(&poly_mod)
CtxTryFrom ==
    /\ pc = "call"
    /\ call.op = "try_from"
    /\ obj = None
    /\ obj' = ModulusPolynomialRingZq_try_from(call.q).obj
    /\ eng' = ModulusPolynomialRingZq_try_from(call.q).eng
    /\ pc' = "done"
    /\ UNCHANGED <<call, ret, back>>

\* r.clone() for a live value r
CtxClone ==
    /\ pc = "done"
    /\ obj.made < MaxReferents
    /\ \E r \in obj.live :
         /\ call' = [op |-> "clone", r |-> r]
         /\ obj' = ModulusPolynomialRingZq_clone(obj)
    /\ UNCHANGED <<pc, ret, eng, back>>

\* r.get_fq_ctx_struct() for a live value r
CtxGet ==
    /\ pc = "done"
    /\ \E r \in obj.live :
         /\ call' = [op |-> "get_fq_ctx_struct", r |-> r]
         /\ ret' = get_fq_ctx_struct(obj)
    /\ UNCHANGED <<obj, pc, eng, back>>

\* drop(r) for a live value r; after the last one nothing is left to call
CtxDrop ==
    /\ pc = "done"
    /\ \E r \in obj.live :
         /\ call' = [op |-> "drop", r |-> r]
         /\ obj' = ModulusPolynomialRingZq_drop(obj, r).obj
         /\ eng' = eng \o ModulusPolynomialRingZq_drop(obj, r).eng
         /\ pc' = IF obj.live = {r} THEN "back" ELSE "done"
    /\ UNCHANGED <<ret, back>>

NextCtx == CtxTryFrom \/ CtxClone \/ CtxGet \/ CtxDrop

SpecCtx == InitCtx /\ [][NextCtx]_vars

----------------------------------------------------------------------------
(* Claims about the shared context *)

\* how often the engine was asked to clear the context
Clears == Cardinality({i \in 1 .. Len(eng) : eng[i] = "fq_ctx_clear"})

\* C19: while a value that references the context is live the context is not
\* released and reads as initialised, and once the last value is dropped it
\* has been released exactly once, by that drop.
C19_ReleasedOnceAtLastDrop ==
    obj # None =>
      /\ obj.live # {} =>
           /\ Clears = 0
           /\ obj.modulus.storage = "initialised"
           /\ call.op = "get_fq_ctx_struct" => ret.storage = "initialised"
      /\ obj.live = {} =>
           /\ Clears = 1
           /\ eng[Len(eng)] = "fq_ctx_clear"
           /\ call.op = "drop"

\* three values made, all dropped, the first of them last
C19_Witness ==
    /\ obj # None
    /\ obj.made = 3
    /\ obj.live = {}
    /\ call = [op |-> "drop", r |-> 1]
    /\ Clears = 1

----------------------------------------------------------------------------
(* Claims about the clone of a matrix *)

\* C20: a clone holds the entries of the matrix, and after set_entry on the
\* clone the entries and the text of the matrix are what they were, the clone
\* holds the value at the index, and the same with the two exchanged.
C20_CloneIsDeepCopy ==
    call.op = "clone" =>
      /\ pc = "done" =>
           /\ obj.heap[obj.id_mat] = call.mat.rows
           /\ obj.heap[obj.clone] = call.mat.rows
      /\ pc = "back" =>
           LET other == IF call.target = "clone" THEN obj.id_mat ELSE obj.clone
           IN  /\ obj.heap[other] = call.mat.rows
               /\ back = MatQ_to_string(call.mat)
               /\ IsOk(ret) =>
                    obj.heap[obj[call.target]][call.row + 1][call.column + 1]
                      = call.value
               /\ IsErr(ret) => obj.heap[obj[call.target]] = call.mat.rows

\* a matrix of two rows and two columns, entry (0, 0) of its clone set to 2
\* as the documentation does
C20_Witness ==
    /\ pc = "back"
    /\ call.op = "clone"
    /\ call.target = "clone"
    /\ call.row = 0
    /\ call.column = 0
    /\ call.value = [num |-> 2, den |-> 1]
    /\ ret = Ok(<<>>)
    /\ obj.heap[obj.clone][1][1] = [num |-> 2, den |-> 1]
    /\ back = <<"[", "[", "1", "/", "2", ",", " ", "0", "]", ",",
                "[", "0", ",", " ", "1", "/", "2", "]", "]">>

----------------------------------------------------------------------------
(* Claims about the value of a text, checked under SpecZ *)

\* the value of a character as a digit of a base: its place in the alphabet
\* of the base, a letter of either case up to base 36
ValueOfDigit(c, base) ==
    CHOOSE v \in 0 .. base - 1 :
       IF base > 36 THEN c = UpperLowerDigits[v + 1]
       ELSE c \in {LowerDigits[v + 1], UpperLowerDigits[v + 1]}

\* the integer whose expansion in the base is the digit string d
RECURSIVE Expansion(_, _)
Expansion(d, base) ==
    IF Len(d) = 0 THEN 0
    ELSE Expansion(SubSeq(d, 1, Len(d) - 1), base) * base
           + ValueOfDigit(d[Len(d)], base)

\* C21: for a base in [2,62] and a well-formed text, from_str_b returns the
\* integer whose expansion in the base is the text, negated when the text
\* starts with '-'.
C21_PositionalValue ==
    (/\ pc = "done"
     /\ call.op = "from_str_b"
     /\ call.base >= 2 /\ call.base <= 62
     /\ WellFormedZ(call.s, call.base)) =>
        ret = Ok(IF call.s[1] = "-" THEN -Expansion(Tail(call.s), call.base)
                 ELSE Expansion(call.s, call.base))

\* "-10100" in base 2 is -20
C21_Witness ==
    /\ pc = "done"
    /\ call.op = "from_str_b"
    /\ call.base = 2
    /\ call.s = <<"-", "1", "0", "1", "0", "0">>
    /\ ret = Ok(-20)

----------------------------------------------------------------------------
(* Claims about the buffers of the engine, checked under SpecPolyZ *)

\* what a call did with buffers of the engine, in order: a buffer obtained,
\* a buffer copied from, a buffer freed
BufferEvents ==
    SelectSeq(eng, LAMBDA e : e \in {"fmpz_get_str", "fmpz_poly_get_str",
                                     "CStr::from_ptr", "free"})

\* C22: every buffer obtained from the engine by to_string_b or by Display
\* for PolyOverZ is copied from while it is allocated and then freed, once;
\* a call that returned a text obtained a buffer, and a call that failed
\* before the engine obtained none.
C22_BufferFreedOnceAfterCopy ==
    /\ Len(BufferEvents) % 3 = 0
    /\ \A i \in 1 .. Len(BufferEvents) :
         CASE i % 3 = 1 -> BufferEvents[i] \in {"fmpz_get_str", "fmpz_poly_get_str"}
           [] i % 3 = 2 -> BufferEvents[i] = "CStr::from_ptr"
           [] OTHER -> BufferEvents[i] = "free"
    /\ (pc = "done" /\ call.op \in {"to_string_b", "PolyOverZ_to_string"}) =>
         Len(BufferEvents) = IF IsOk(ret) THEN 3 ELSE 0
    /\ (pc = "back" /\ call.op = "PolyOverZ_from_str") => Len(BufferEvents) = 3

\* -5 written in base 2: one buffer, copied from and freed
C22_Witness ==
    /\ pc = "done"
    /\ call.op = "to_string_b"
    /\ call.base = 2
    /\ call.x = -5
    /\ ret = Ok(<<"-", "1", "0", "1">>)
    /\ eng = <<"fmpz_get_str", "CStr::from_ptr", "free">>

----------------------------------------------------------------------------
(* Claims about the narrowing to i64, checked under SpecZ *)

\* C23: whatever fmpz_get_si returned (back), i64::try_from rejects a value
\* outside [i64::MIN, i64::MAX] with a ConversionError, and a value it
\* returns is the original value.
C23_NarrowingChecked ==
    (pc = "done" /\ call.op = "try_from") =>
        /\ back \in I64
        /\ (call.x < I64_MIN \/ call.x > I64_MAX) => IsErrOf(ret, "ConversionError")
        /\ IsOk(ret) => (ret.val = call.x /\ back = call.x)

\* u64::MAX, for which the narrowing returned the low bits (-1)
C23_Witness ==
    /\ pc = "done"
    /\ call.op = "try_from"
    /\ call.x = U64_MAX
    /\ back = -1
    /\ IsErrOf(ret, "ConversionError")

----------------------------------------------------------------------------
(* Claims about the operand order, checked under SpecArith *)

\* C24 as stated: a form with the other type on the left and the library
\* type on the right returns what the operator of the library type returns
\* for (T::from(u), t), the operands in the order they are written in.
C24_Original ==
    (pc \in {"done", "back"} /\ call.op = "operator" /\ call.first = "i64") =>
        ret = [type |-> "Z",
               val |-> TraitFunction(call.trait, from_i64(call.u), call.t)]

\* 3 - 0 written with the word on the left: the form returns 0 - 3
C24_Witness ==
    /\ pc = "done"
    /\ call.op = "operator"
    /\ call.trait = "sub"
    /\ call.first = "i64"
    /\ call.u = 3
    /\ call.t = 0
    /\ ret = [type |-> "Z", val |-> -3]

----------------------------------------------------------------------------
(* Claims about the forwarding of the operator forms, checked under
   SpecArith *)

\* a call of the operator of the library type on two borrowed values
IsCanonicalCall(f) ==
    /\ f[1].type = "Z" /\ f[1].own = "ref"
    /\ f[2].type = "Z" /\ f[2].own = "ref"

\* the calls of one operator call: all different, at most three of them
\* forwarding, and the last of them, and only the last, canonical
IsForwardingChain(calls) ==
    /\ Len(calls) >= 1 /\ Len(calls) <= 4
    /\ \A i \in 1 .. Len(calls) : \A j \in 1 .. Len(calls) :
          i # j => calls[i] # calls[j]
    /\ \A i \in 1 .. Len(calls) : IsCanonicalCall(calls[i]) <=> i = Len(calls)

\* C25: a call of any generated form returns; the calls it makes (eng) are
\* all different, at most three of them forward, and the last of them, and
\* only the last, is the operator of the library type on two borrowed values;
\* the same holds of the calls of the borrowed form called after it.
C25_ForwardingTerminates ==
    /\ (pc = "done" /\ call.op = "operator") =>
          /\ ret.type = "Z"
          /\ IsForwardingChain(eng)
    /\ (pc = "back" /\ call.op = "operator") =>
          /\ back.type = "Z"
          /\ \E k \in 1 .. (Len(eng) - 1) :
                /\ IsForwardingChain(SubSeq(eng, 1, k))
                /\ IsForwardingChain(SubSeq(eng, k + 1, Len(eng)))

\* 3 * (-2) with both operands owned and the word on the left: three calls
\* forward, the fourth multiplies
C25_Witness ==
    /\ pc = "done"
    /\ call.op = "operator"
    /\ call.trait = "mul"
    /\ call.first = "i64"
    /\ call.second = "Z"
    /\ call.left = "owned"
    /\ call.right = "owned"
    /\ call.u = 3
    /\ call.t = -2
    /\ ret = [type |-> "Z", val |-> -6]
    /\ eng = <<<<Operand("i64", "owned", 3), Operand("Z", "owned", -2)>>,
               <<Operand("i64", "ref", 3), Operand("Z", "ref", -2)>>,
               <<Operand("Z", "ref", -2), Operand("Z", "owned", 3)>>,
               <<Operand("Z", "ref", -2), Operand("Z", "ref", 3)>>>>

----------------------------------------------------------------------------
(* Claims about the conversions from machine integers, checked under SpecZ *)

\* the text is the decimal text of v: a '-' exactly when v is negative, then
\* the decimal digits of the magnitude with no leading zero
IsDecimalTextOf(text, v) ==
    LET digits == IF v < 0 THEN Tail(text) ELSE text
    IN  /\ Len(text) > 0
        /\ (v < 0) => text[1] = "-"
        /\ Len(digits) > 0
        /\ \A i \in 1 .. Len(digits) : digits[i] \in {LowerDigits[k] : k \in 1 .. 10}
        /\ (Len(digits) > 1) => digits[1] # "0"
        /\ Expansion(digits, 10) = Abs(v)

\* C28: Z::from and Z::from_<type> keep the value of their argument over the
\* whole range of each of the eight integer types (u64::MAX stays 2^64-1,
\* i64::MIN stays -2^63), and the text of the result is the decimal text of
\* the argument.
C28_FromKeepsValue ==
    /\ (call.op \in {"from_type", "from_trait"} /\ pc \in {"done", "back"}) =>
          /\ ret = call.value
          /\ obj = call.value
    /\ (call.op \in {"from_type", "from_trait"} /\ pc = "back") =>
          IsDecimalTextOf(back, call.value)

\* Z::from(u64::MAX) is 2^64-1, and is written as that
C28_Witness ==
    /\ pc = "back"
    /\ call.op = "from_trait"
    /\ call.type = "u64"
    /\ call.value = U64_MAX
    /\ ret = U64_MAX
    /\ ret > I64_MAX
    /\ IsDecimalTextOf(back, U64_MAX)

----------------------------------------------------------------------------
(* Claims about the conversions from Zq and Modulus, checked under SpecZ *)

\* C29: Z::from_zq returns the representative r of the value the Zq was built
\* from, 0 <= r < modulus, the value itself when that was in the range;
\* Z::from_modulus returns the modulus, a positive integer; the storage of
\* either result is in place after the Zq or Modulus passed in is dropped.
C29_ModularToInteger ==
    /\ (pc = "done" /\ call.op = "from_zq") =>
          /\ obj.value = "dropped"
          /\ obj.heap[ret.value].storage = "initialised"
          /\ obj.heap[ret.value].n \in 0 .. (call.modulus - 1)
          /\ (obj.heap[ret.value].n - call.x) % call.modulus = 0
          /\ call.x \in 0 .. (call.modulus - 1) => obj.heap[ret.value].n = call.x
    /\ (pc = "done" /\ call.op = "from_modulus") =>
          /\ obj.value = "dropped"
          /\ obj.heap[ret.value].storage = "initialised"
          /\ obj.heap[ret.value].n = call.modulus
          /\ obj.heap[ret.value].n > 0
    /\ (pc = "done" /\ call.op \in {"from_zq", "from_modulus"}) =>
          /\ ret.value # 1
          /\ obj.heap[1].strong = call.holders - 1
          /\ (obj.heap[1].storage = "cleared") <=> (call.holders = 1)

\* the modulus 2^64+1 read from the integer after its Modulus is dropped
C29_Witness ==
    /\ pc = "done"
    /\ call.op = "from_modulus"
    /\ call.modulus = U64_MAX + 2
    /\ call.holders = 1
    /\ obj.value = "dropped"
    /\ obj.heap[1].storage = "cleared"
    /\ obj.heap[ret.value] = [n |-> U64_MAX + 2, storage |-> "initialised"]

----------------------------------------------------------------------------
(* Claims about the errors of PolyOverQ::from_str, checked under SpecPolyQ *)

\* the positions of s at which a space is followed by a space
SpacePairs(s) == {i \in 1 .. (Len(s) - 1) : s[i] = " " /\ s[i + 1] = " "}

\* C27: a text with a NUL byte fails with InvalidStringToCStringInput and the
\* engine is not called; any other text that fails does so with
\* InvalidStringToPolyMissingWhitespace when no space in it is followed by a
\* space, and with InvalidStringToPolyInput otherwise.
C27_ErrorKindByTwoSpaces ==
    (pc = "done" /\ call.op = "PolyOverQ_from_str") =>
        IF NUL \in {call.s[i] : i \in 1 .. Len(call.s)}
        THEN ret = Err("InvalidStringToCStringInput") /\ eng = <<>>
        ELSE IsErr(ret) =>
               /\ eng = <<"fmpq_poly_set_str">>
               /\ ret = IF SpacePairs(call.s) = {}
                        THEN Err("InvalidStringToPolyMissingWhitespace")
                        ELSE Err("InvalidStringToPolyInput")

\* "1/x" has no space at all and is reported as a missing separator
C27_Witness ==
    /\ pc = "done"
    /\ call.op = "PolyOverQ_from_str"
    /\ call.s = <<"1", "/", "x">>
    /\ ret = Err("InvalidStringToPolyMissingWhitespace")
    /\ eng = <<"fmpq_poly_set_str">>

----------------------------------------------------------------------------
(* Claims about the text form of MatQ, checked under SpecMat *)

\* the fraction in lowest terms over a positive denominator that equals n/d
LowestTerms(n, d) ==
    CHOOSE q \in [num : -Abs(n) .. Abs(n), den : 1 .. Abs(d)] :
       /\ q.num * d = n * q.den
       /\ \A k \in 2 .. q.den : ~(q.num % k = 0 /\ q.den % k = 0)

\* the canonical text of an entry as it is written in a text
CanonicalEntry(t) ==
    LET q == LowestTerms(RatOfToken(t).n, RatOfToken(t).d)
        Write(n) == IF n < 0 THEN <<"-">> \o DigitsOf(-n, 10, LowerDigits)
                    ELSE DigitsOf(n, 10, LowerDigits)
    IN  IF q.den = 1 THEN Write(q.num) ELSE Write(q.num) \o <<"/">> \o Write(q.den)

\* C30: the serialized text of a MatQ parsed from a text holds every entry in
\* lowest terms over a positive denominator, an integer without denominator,
\* with ", " between two entries of a row and "," between two rows; a text
\* that is written that way already comes back byte for byte.
C30_CanonicalEntriesInText ==
    (pc = "back" /\ call.type = "MatQ" /\ call.op = "from_str") =>
        /\ back = Ok(JsonOfMatrix(
                      <<"[", "[">>
                        \o Join([i \in 1 .. Len(call.rows) |->
                                    Join([j \in 1 .. Len(call.rows[i]) |->
                                             CanonicalEntry(call.rows[i][j])],
                                         <<",", " ">>)],
                                <<"]", ",", "[">>)
                        \o <<"]", "]">>))
        /\ (/\ \A i \in 1 .. Len(call.rows) : \A j \in 1 .. Len(call.rows[i]) :
                  call.rows[i][j] = CanonicalEntry(call.rows[i][j])
            /\ call.s = WriteMatrixText(call.rows, <<",", " ">>)) =>
               back = Ok(JsonOfMatrix(call.s))

\* "[[-1/-5],[-1],[0]]" is serialized as "[[1/5],[-1],[0]]"
C30_Witness ==
    /\ pc = "back"
    /\ call.type = "MatQ" /\ call.op = "from_str"
    /\ call.s = <<"[", "[", "-", "1", "/", "-", "5", "]", ",", "[", "-", "1", "]",
                  ",", "[", "0", "]", "]">>
    /\ back = Ok(JsonOfMatrix(<<"[", "[", "1", "/", "5", "]", ",", "[", "-", "1", "]",
                               ",", "[", "0", "]", "]">>))

----------------------------------------------------------------------------
(* Claims about the setters for other types, checked under SpecPolyZ *)

\* what the impl for a borrowed Z does with the object, the index and the
\* value of a call
Canonical ==
    IF call.trait = "SetCoefficient"
    THEN PolyOverZ_set_coeff(call.self, call.index, call.value)
    ELSE MatZq_set_entry(call.self, call.index, call.value)

\* C26: set_coeff and set_entry called with a Z, an i64 or a u64 return what
\* the impl for a borrowed Z returns for the same index and the same value,
\* an index error exactly when that one does, and leave the object as that
\* one leaves it; the only call of the engine the forms add is the one that
\* makes the Z of an i64 or u64 value, and the object is changed by the impl
\* for a borrowed Z alone.
C26_GeneratedSettersForward ==
    (pc = "done" /\ call.op = "set" /\ call.type # "&Z") =>
        /\ ret = Canonical.ret
        /\ IsErr(ret) <=> IsErr(Canonical.ret)
        /\ obj = Canonical.self
        /\ eng = (CASE call.type = "Z" -> <<>>
                    [] call.type = "i64" -> <<"fmpz_init_set_si", call.trait \o "<Z>">>
                    [] call.type = "u64" -> <<"fmpz_init_set_ui", call.trait \o "<Z>">>)
                   \o <<call.trait \o "<&Z>">> \o Canonical.eng
        /\ IsErr(ret) => obj = call.self

\* set_coeff(2, u64::MAX) on the polynomial 1: the coefficients 1, 0, 2^64-1
C26_Witness ==
    /\ pc = "done"
    /\ call.op = "set"
    /\ call.trait = "SetCoefficient"
    /\ call.type = "u64"
    /\ call.self = <<1>>
    /\ call.index = <<2, 0>>
    /\ call.value = U64_MAX
    /\ ret = Ok("()")
    /\ obj = <<1, 0, U64_MAX>>
    /\ eng = <<"fmpz_init_set_ui", "SetCoefficient<Z>", "SetCoefficient<&Z>",
               "fmpz_poly_set_coeff_fmpz">>

=============================================================================
